---- MODULE Spec2Model ----
(***************************************************************************)
(* Model of the sweep analyzer's detection core: drone_detection.py        *)
(* (baseline warm-up, history ring, segment detection, tracked ranges,     *)
(* background refresher) and hackrf_sweep/core.py (measure_rssi and its    *)
(* per-device worker threads).                                             *)
(*                                                                         *)
(* Conventions.  Arrays are sequences; the code's indices are 0-based and  *)
(* its intervals half-open, and the model keeps them: bins start..end-1 of *)
(* a row are the elements start+1..end of the sequence.  Power levels are  *)
(* integers (dB).  A mean over 1, 2 or 3 bins is kept as 6 times its value *)
(* and the baseline, a mean over BASELINE_SWEEPS sweeps, as the sum, so    *)
(* every comparison of the code is made exactly on integers.               *)
(***************************************************************************)
EXTENDS Integers, Sequences, FiniteSets, TLC

\* ------------------------------------------------------------- parameters
\* drone_detection.py:30  THRESHOLD_DB = CONFIG.get("threshold_db", 10.0)
THRESHOLD_DB == 10
\* drone_detection.py:32  IGNORE_LEVEL_DBM = CONFIG.get("ignore_level_dbm", -100.0)
IGNORE_LEVEL_DBM == -100
\* drone_detection.py:34  MIN_BINS = int(CONFIG.get("min_bins", 3))
MIN_BINS == 3
\* drone_detection.py:36  STDDEV_MAX_DB = CONFIG.get("stddev_max_db", 5.0)
STDDEV_MAX_DB == 5
\* drone_detection.py:38  BASELINE_SWEEPS = 5
BASELINE_SWEEPS == 5
\* drone_detection.py:40  HISTORY_LEN = 10, scaled down
HISTORY_LEN == 2
\* drone_detection.py:24-27: the session's frequency plan, in
\* MHz.  With the defaults of start_sweep (20 MHz sample rate, 5 MHz steps,
\* 256 bins) a step is 64 bins wide, a quarter of a row; the model keeps a
\* step narrower than a row and takes a plan with bins of 1 MHz.
START_MHZ == 431
STEP_MHZ == 2
BIN_WIDTH_MHZ == 1

\* Bins of one step (FFT_SIZE, scaled down) and steps of one sweep.
Bins == 4
Steps == 1
\* Fixed-point precision of the square root in the dispersion filter.
StdPrec == 100

\* The code's None: of a label, "None"; of an array, the empty sequence.
None == "None"
NoArray == <<>>

\* ------------------------------------------------------------ arithmetic
Abs(x) == IF x < 0 THEN -x ELSE x

RECURSIVE SumSeq(_)
SumSeq(s) == IF s = <<>> THEN 0 ELSE Head(s) + SumSeq(Tail(s))

\* floor(sqrt(x)) by bisection on lo..hi
RECURSIVE ISqrtIn(_, _, _)
ISqrtIn(x, lo, hi) ==
    IF lo >= hi THEN lo
    ELSE LET mid == (lo + hi + 1) \div 2
         IN  IF mid * mid <= x THEN ISqrtIn(x, mid, hi) ELSE ISqrtIn(x, lo, mid - 1)

ISqrt(x) == ISqrtIn(x, 0, 46340)

\* the code's arr[start:end]
Slice(arr, start, end) == SubSeq(arr, start + 1, end)

\* --------------------------------------------------------- _segments
\* The loop of _segments: i is the next index, start the open run, or
\* NoStart for the code's None.
NoStart == 0 - 1

RECURSIVE SegLoop(_, _, _, _)
SegLoop(mask, i, start, segs) ==
    IF i = Len(mask)
    THEN IF start # NoStart THEN Append(segs, <<start, Len(mask)>>) ELSE segs
    ELSE LET val == mask[i + 1]
         IN  IF val /\ start = NoStart THEN SegLoop(mask, i + 1, i, segs)
             ELSE IF ~val /\ start # NoStart
                  THEN SegLoop(mask, i + 1, NoStart, Append(segs, <<start, i>>))
                  ELSE SegLoop(mask, i + 1, start, segs)

\* the runs without the one still open when the mask ends
segments_TailLost(mask) ==
    LET all == SegLoop(mask, 0, NoStart, <<>>)
    IN  IF mask # <<>> /\ mask[Len(mask)] THEN SubSeq(all, 1, Len(all) - 1) ELSE all

segments(mask) == SegLoop(mask, 0, NoStart, <<>>)

\* --------------------------------------------------------- _top3_mean
\* The sliding window of _top3_mean; sums are kept doubled, so that the
\* result is 6 * mean in every branch.
RECURSIVE Top3Loop(_, _, _, _)
Top3Loop(arr, i, window_sum, max_sum) ==
    IF i >= Len(arr) THEN max_sum
    ELSE LET ws == window_sum + (arr[i + 1] - arr[i - 2])
         IN  Top3Loop(arr, i + 1, ws, IF ws > max_sum THEN ws ELSE max_sum)

\* 6 * _top3_mean(arr)
top3_mean(arr) ==
    IF Len(arr) < 3
    THEN (6 * SumSeq(arr)) \div Len(arr)
    ELSE LET w0 == arr[1] + arr[2] + arr[3]
         IN  2 * Top3Loop(arr, 3, w0, w0)

\* ------------------------------------------------------------- _classify
\* the classification whose FPV rule leaves out the width of 25 MHz
classify_WidthExclusive(start, end) ==
    LET width == end - start
        center2 == start + end
    IN  IF 2 * 5740 <= center2 /\ center2 <= 2 * 5820 /\ 15 <= width /\ width < 25
        THEN "FPV video"
        ELSE IF 2 * 2402 <= center2 /\ center2 <= 2 * 2483 /\ width <= 5
        THEN "telemetry or Wi-Fi"
        ELSE IF Abs(center2 - 2 * 433) <= 2 /\ width <= 2
        THEN "control 433 MHz"
        ELSE IF Abs(center2 - 2 * 868) <= 2 /\ width <= 2
        THEN "control 868 MHz"
        ELSE None

\* width = end - start, center = (start + end) / 2; compared doubled.
classify(start, end) ==
    LET width == end - start
        center2 == start + end
    IN  IF 2 * 5740 <= center2 /\ center2 <= 2 * 5820 /\ 15 <= width /\ width <= 25
        THEN "FPV video"
        ELSE IF 2 * 2402 <= center2 /\ center2 <= 2 * 2483 /\ width <= 5
        THEN "telemetry or Wi-Fi"
        ELSE IF Abs(center2 - 2 * 433) <= 2 /\ width <= 2
        THEN "control 433 MHz"
        ELSE IF Abs(center2 - 2 * 868) <= 2 /\ width <= 2
        THEN "control 868 MHz"
        ELSE None

\* ------------------------------------------------- the Segment Detector
\* Levels in the common unit of 1/(6 * BASELINE_SWEEPS) dB: a value of the
\* current sweep, and a threshold of the configuration.
Q == BASELINE_SWEEPS
Lvl6Q(db) == 6 * Q * db

\* HISTORY.std(axis=0)[step_idx][b], times HISTORY_LEN: the square root of
\* N * sum(x^2) - sum(x)^2, in 1/StdPrec.
StdN(hist, step_idx, b) ==
    LET xs == [h \in 1..Len(hist) |-> hist[h][step_idx + 1][b + 1]]
        sq == [h \in 1..Len(hist) |-> xs[h] * xs[h]]
        v  == Len(hist) * SumSeq(sq) - SumSeq(xs) * SumSeq(xs)
    IN  ISqrt(v * StdPrec * StdPrec)

\* std_row[start_idx:end_idx].mean() > STDDEV_MAX_DB      (line 216)
TooUnstable(hist, step_idx, start_idx, end_idx) ==
    SumSeq([i \in 1..(end_idx - start_idx) |-> StdN(hist, step_idx, start_idx + i - 1)])
        > STDDEV_MAX_DB * Len(hist) * (end_idx - start_idx) * StdPrec

\* the length filter with the bound included: a run of exactly MIN_BINS
\* bins is dropped
TooShort_Inclusive(seg_len) == seg_len <= MIN_BINS /\ seg_len > 2

\* seg_len < MIN_BINS and seg_len > 2                      (line 208)
TooShort(seg_len) == seg_len < MIN_BINS /\ seg_len > 2

\* the detector without its ignore-level filter
BelowIgnore_Off(mean_base, mean_curr) == FALSE

\* mean_base < IGNORE_LEVEL_DBM and mean_curr < IGNORE_LEVEL_DBM   (line 214)
BelowIgnore(mean_base, mean_curr) ==
    mean_base < Lvl6Q(IGNORE_LEVEL_DBM) /\ mean_curr < Lvl6Q(IGNORE_LEVEL_DBM)

\* abs(mean_curr - mean_base) < THRESHOLD_DB              (lines 218, 265)
WithinThreshold(mean_curr, mean_base) ==
    Abs(mean_curr - mean_base) < Lvl6Q(THRESHOLD_DB)

\* mask_up / mask_down of one row (lines 191-193); base_row holds sums over
\* BASELINE_SWEEPS sweeps.
MaskUp(current_row, base_row) ==
    [b \in 1..Len(current_row) |-> Q * current_row[b] - base_row[b] >= Q * THRESHOLD_DB]
MaskDown(current_row, base_row) ==
    [b \in 1..Len(current_row) |-> Q * current_row[b] - base_row[b] <= -(Q * THRESHOLD_DB)]

\* the key that ends at the last bin of the run instead of one past it
KeyOf_EndInclusive(step_idx, start_idx, end_idx) ==
    << START_MHZ + step_idx * STEP_MHZ + start_idx * BIN_WIDTH_MHZ,
       START_MHZ + step_idx * STEP_MHZ + (end_idx - 1) * BIN_WIDTH_MHZ >>

\* key_start, key_end (lines 220-222)
KeyOf(step_idx, start_idx, end_idx) ==
    << START_MHZ + step_idx * STEP_MHZ + start_idx * BIN_WIDTH_MHZ,
       START_MHZ + step_idx * STEP_MHZ + end_idx * BIN_WIDTH_MHZ >>

\* The body of the loop over one segment (lines 207-222): the record of a
\* surviving run, or <<>> for a rejected one.
SegRecord(sweep, base, hist, step_idx, seg, sign) ==
    LET start_idx == seg[1]
        end_idx   == seg[2]
        mean_base == top3_mean(Slice(base[step_idx + 1], start_idx, end_idx))
        mean_curr == Q * top3_mean(Slice(sweep[step_idx + 1], start_idx, end_idx))
    IN  IF TooShort(end_idx - start_idx) THEN <<>>
        ELSE IF BelowIgnore(mean_base, mean_curr) THEN <<>>
        ELSE IF TooUnstable(hist, step_idx, start_idx, end_idx) THEN <<>>
        ELSE IF WithinThreshold(mean_curr, mean_base) THEN <<>>
        ELSE << [step |-> step_idx, start |-> start_idx, end |-> end_idx,
                 sign |-> sign, mean_base |-> mean_base, mean_curr |-> mean_curr,
                 key |-> KeyOf(step_idx, start_idx, end_idx)] >>

RECURSIVE SegRecords(_, _, _, _, _, _)
SegRecords(sweep, base, hist, step_idx, segs, sign) ==
    IF segs = <<>> THEN <<>>
    ELSE SegRecord(sweep, base, hist, step_idx, Head(segs), sign)
         \o SegRecords(sweep, base, hist, step_idx, Tail(segs), sign)

\* One row (lines 199-206): the up segments, then the down segments.
RowRecords(sweep, base, hist, step_idx) ==
    LET up_segments   == segments(MaskUp(sweep[step_idx + 1], base[step_idx + 1]))
        down_segments == segments(MaskDown(sweep[step_idx + 1], base[step_idx + 1]))
    IN  SegRecords(sweep, base, hist, step_idx, up_segments, "+")
        \o SegRecords(sweep, base, hist, step_idx, down_segments, "-")

\* The rows in increasing order (lines 197-198); a row without a crossing
\* has no segment and contributes nothing.
RECURSIVE DetectFrom(_, _, _, _)
DetectFrom(sweep, base, hist, step_idx) ==
    IF step_idx >= Len(sweep) THEN <<>>
    ELSE RowRecords(sweep, base, hist, step_idx)
         \o DetectFrom(sweep, base, hist, step_idx + 1)

Detect(sweep, base, hist) == DetectFrom(sweep, base, hist, 0)

\* ------------------------------------------------------------------ state
VARIABLES
    BASELINE_ACCUM,   \* sum of the warm-up sweeps, NoArray before the first
    BASELINE_COUNT,   \* warm-up sweeps seen
    BASELINE,         \* NoArray, or the baseline as sums over BASELINE_SWEEPS
    HISTORY,          \* HISTORY_LEN sweeps; <<>> each while of shape (N, 0, 0)
    HIST_IDX,
    HIST_FILLED,
    TRACKED,          \* the dict, in insertion order: a sequence of entries
    slaves,           \* _slaves: the auxiliary devices opened by start_sweep
    pc,               \* position of the sweep path and of the updater thread
    baseline_npy,     \* the file baseline.npy: its array, NoArray while there is
                      \* no file, and how often this process has saved it
    sweep,            \* the sweep process_sweep was last called with
    detected,         \* the surviving runs of that sweep, in loop order
    pending,          \* those of them the loop has not reached yet
    gone,             \* keys the eviction pass has deleted so far
    items,            \* the updater's list(TRACKED.items()) still to visit
    call,             \* the measure_rssi frame of each caller
    clock,            \* time.time(), one tick per reading
    printed,          \* the lines each thread has printed since it began its
                      \* current call of process_sweep or pass of the updater
    start_sweep,      \* core/sdr.py: the function the name start_sweep is bound to
    device,           \* the class of the device whose sweep() is called
    stop_event,       \* the flag of the Event passed as stop_event
    sdr_pc,           \* position of the thread that called sweep()
    delivered,        \* the sweeps start_sweep has handed to its callback
    captured,         \* the arrays the user callback has been called with
    cls_args,         \* the (start, end) _classify is called with
    cls_label,        \* what the call returned
    config_file,      \* utils/config.py: the content of CONFIG_FILE
    cfg,              \* what load_config returned
    window,           \* how far MainWindow.__init__ has come
    win_device,       \* MainWindow.device: None or the serial of the chosen device
    worker,           \* MainWindow.worker: << >> for None, or << the SweepWorker >>
    device_menu,      \* the serials with an action in the menu of devices
    threads,          \* the SweepWorker threads that are started and not ended
    start_action,     \* whether the toolbar's Start action is enabled
    stop_action,      \* whether the toolbar's Stop action is enabled
    fn_arg,           \* the array a helper (_segments, _top3_mean) is called on
    fn_ret            \* << >> before the call returns, then << what it returned >>

\* the state of drone_detection.py and hackrf_sweep/core.py
dronevars == << BASELINE_ACCUM, BASELINE_COUNT, BASELINE, HISTORY, HIST_IDX,
                HIST_FILLED, TRACKED, slaves, pc, sweep, detected, pending, gone,
                items, call, clock, printed, baseline_npy >>

\* the state of a sweep() call of core/sdr.py
sdrvars == << start_sweep, device, stop_event, sdr_pc, delivered, captured >>

\* the state of a call of _classify
classvars == << cls_args, cls_label >>

\* the state of the application's start: utils/config.py, gui/main_window.py
cfgvars == << config_file, cfg, window >>

\* the main window's toolbar and worker: gui/main_window.py
guivars == << win_device, worker, device_menu, threads, start_action, stop_action >>

\* the state of a call of one of the detector's helpers
helpvars == << fn_arg, fn_ret >>

\* what a step of one part of the repository leaves alone
notdrone == << sdrvars, classvars, cfgvars, guivars, helpvars >>
notsdr == << dronevars, classvars, cfgvars, guivars, helpvars >>
notclass == << dronevars, sdrvars, cfgvars, guivars, helpvars >>
notcfg == << dronevars, sdrvars, classvars, helpvars >>
notgui == << dronevars, sdrvars, classvars, helpvars >>
nothelp == << dronevars, sdrvars, classvars, cfgvars, guivars >>

vars == << dronevars, sdrvars, classvars, cfgvars, guivars, helpvars >>

detvars == << BASELINE_ACCUM, BASELINE_COUNT, BASELINE, HISTORY, HIST_IDX, HIST_FILLED >>

\* The two threads that call measure_rssi: the sweep callback (process_sweep)
\* and the updater thread (_update_tracked).
Callers == {"sweep", "updater"}

\* ----------------------------------------------------------------- bounds
\* calls of process_sweep in one behaviour, the warm-up that a persisted
\* baseline stands for included
MaxSweeps == 10
\* readings of time.time() that are told apart: the clock stops there
MaxClock == 3
\* hackrf_sweep/core.py:188: start_sweep opens at most two auxiliary devices
MAX_SLAVES == 2

\* ------------------------------------------------------------- array help
Shape(arr) == IF arr = <<>> THEN <<0, 0>> ELSE <<Len(arr), Len(arr[1])>>
Zeros(shape) == [s \in 1..shape[1] |-> [b \in 1..shape[2] |-> 0]]
AddArr(a, b) == [s \in 1..Len(a) |-> [i \in 1..Len(a[s]) |-> a[s][i] + b[s][i]]]

\* numpy's rule for an array stored into, or added in place to, an array of
\* the given shape: each dimension is equal or 1, and a dimension of 1 is
\* repeated; any other shape raises ValueError.
Broadcastable(arr, shape) ==
    /\ Shape(arr)[1] \in {1, shape[1]}
    /\ Shape(arr)[2] \in {1, shape[2]}

Broadcast(arr, shape) ==
    [s \in 1..shape[1] |-> [b \in 1..shape[2] |->
        arr[IF Len(arr) = 1 THEN 1 ELSE s][IF Len(arr[1]) = 1 THEN 1 ELSE b]]]

\* ------------------------------------------------ the baseline and history
\* the warm-up taken as complete one sweep early
WarmUpDone_OneEarly(count) == count = BASELINE_SWEEPS - 1

\* line 173: BASELINE_COUNT == BASELINE_SWEEPS
WarmUpDone(count) == count = BASELINE_SWEEPS

\* the estimator that keeps smoothing a ready baseline towards the sweep
Estimate_Smoothed(base, accum, count, sw) ==
    IF base # NoArray
    THEN [BASELINE |-> [s \in 1..Len(base) |-> [b \in 1..Len(base[s]) |->
                          (base[s][b] + BASELINE_SWEEPS * sw[s][b]) \div 2]],
          BASELINE_ACCUM |-> accum, BASELINE_COUNT |-> count]
    ELSE LET zero == IF accum = NoArray THEN Zeros(Shape(sw)) ELSE accum
             sum  == AddArr(zero, Broadcast(sw, Shape(zero)))
         IN  [BASELINE |-> IF WarmUpDone(count + 1) THEN sum ELSE base,
              BASELINE_ACCUM |-> sum,
              BASELINE_COUNT |-> count + 1]

\* Lines 167-175: the baseline, the accumulator and the count after a call
\* of process_sweep with sweep sw.
Estimate(base, accum, count, sw) ==
    IF base # NoArray
    THEN [BASELINE |-> base, BASELINE_ACCUM |-> accum, BASELINE_COUNT |-> count]
    ELSE LET zero == IF accum = NoArray THEN Zeros(Shape(sw)) ELSE accum
             sum  == AddArr(zero, Broadcast(sw, Shape(zero)))
         IN  [BASELINE |-> IF WarmUpDone(count + 1) THEN sum ELSE base,
              BASELINE_ACCUM |-> sum,
              BASELINE_COUNT |-> count + 1]

\* the history taken as full one sweep early
HistoryFull_OneEarly(idx) == idx >= HISTORY_LEN - 1

\* line 183: HIST_IDX == HISTORY_LEN
HistoryFull(idx) == idx = HISTORY_LEN

\* the warm-up that ends without writing the file
Saved_Unwritten(file, arr) == file

\* line 175: np.save("baseline.npy", BASELINE) writes the file once more
Saved(file, arr) == [array |-> arr, saves |-> file.saves + 1]

\* ------------------------------------------------------------ the output
\* A printed line: its kind, and for a line about a range the key, the sign
\* and the count shown.
Line(kind) == [kind |-> kind, key |-> <<>>, sign |-> "", count |-> 0]

\* lines 243-257: the record of a created or refreshed range
AlertLine(rec, e) == [kind |-> "alert", key |-> rec.key, sign |-> rec.sign, count |-> e.count]

\* lines 139-141: the refresher's record of a range
RefreshLine(key) == [kind |-> "refresh", key |-> key, sign |-> "", count |-> 0]

\* ---------------------------------------------------------- the tracked map
\* index of key in the dict, 0 when absent (TRACKED.get(key))
RECURSIVE FindFrom(_, _, _)
FindFrom(T, key, i) ==
    IF i > Len(T) THEN 0
    ELSE IF T[i].key = key THEN i ELSE FindFrom(T, key, i + 1)

Find(T, key) == FindFrom(T, key, 1)

Keys(T) == {T[i].key : i \in 1..Len(T)}

\* the new entry with the two levels taken from the wrong side
NewEntry_LevelsSwapped(rec, ts, slave_vals) ==
    [key |-> rec.key, baseline |-> rec.mean_curr, master |-> rec.mean_base,
     slaves |-> slave_vals, timestamp |-> ts,
     idx |-> <<rec.step, rec.start, rec.end>>, count |-> 1,
     class |-> classify(rec.key[1], rec.key[2])]

\* lines 227-235
NewEntry(rec, ts, slave_vals) ==
    [key |-> rec.key, baseline |-> rec.mean_base, master |-> rec.mean_curr,
     slaves |-> slave_vals, timestamp |-> ts,
     idx |-> <<rec.step, rec.start, rec.end>>, count |-> 1,
     class |-> classify(rec.key[1], rec.key[2])]

\* the refresh that also moves the stored baseline level to the level seen
RefreshLevels_Rebased(e, rec, slave_vals) ==
    [e EXCEPT !.master = rec.mean_curr, !.slaves = slave_vals, !.baseline = rec.mean_curr]

\* lines 237-238
RefreshLevels(e, rec, slave_vals) ==
    [e EXCEPT !.master = rec.mean_curr, !.slaves = slave_vals]

\* the refresh that restarts the count instead of incrementing it
RefreshStamp_CountReset(e, rec, ts) ==
    [e EXCEPT !.timestamp = ts, !.idx = <<rec.step, rec.start, rec.end>>,
              !.count = 1]

\* lines 239-241
RefreshStamp(e, rec, ts) ==
    [e EXCEPT !.timestamp = ts, !.idx = <<rec.step, rec.start, rec.end>>,
              !.count = e.count + 1]

\* lines 262-265: the entry's bins re-sampled from the sweep
Resampled(sw, e) == Q * top3_mean(Slice(sw[e.idx[1] + 1], e.idx[2], e.idx[3]))

\* the eviction test on the stored master level instead of the re-sampled
\* one
Evicted_StoredLevel(sw, e) == WithinThreshold(e.master, e.baseline)

\* line 265
Evicted(sw, e) == WithinThreshold(Resampled(sw, e), e.baseline)

\* the eviction loop that stops after its first deletion
EvictPass_FirstOnly(T, sw) ==
    LET hit == { n \in 1..Len(T) : Evicted(sw, T[n]) }
        first == CHOOSE n \in hit : \A m \in hit : n <= m
    IN  IF hit = {} THEN T
        ELSE [n \in 1..(Len(T) - 1) |-> IF n < first THEN T[n] ELSE T[n + 1]]

\* lines 261-266
EvictPass(T, sw) == SelectSeq(T, LAMBDA e : ~Evicted(sw, e))

\* ------------------------------------------------------------ measure_rssi
\* time.time() after one more reading
Tick(now) == IF now < MaxClock THEN now + 1 ELSE now

NoCall == [active |-> FALSE, freq |-> 0, timestamp |-> 0, results |-> <<>>,
           wpc |-> <<>>, ctx |-> <<>>]

\* lines 114-133: the frame after the threads are started
NewCall(freq, now, devs) ==
    [active |-> TRUE, freq |-> freq, timestamp |-> now,
     results |-> [i \in 1..Len(devs) |-> 0],
     wpc |-> [i \in 1..Len(devs) |-> "start"],
     ctx |-> [i \in 1..Len(devs) |-> [event |-> FALSE, result |-> 0]]]

\* lines 135-136: every thread has ended
Joined(c) == call[c].active /\ \A i \in 1..Len(call[c].wpc) : call[c].wpc[i] = "done"

\* the frequency a range is measured at (lines 131, 224), doubled
CenterOf(key) == key[1] + key[2]

\* --------------------------------------------------------- process_sweep
\* Lines 157-193: the call up to the loop over the rows.  A warm-up or a
\* history-fill sweep returns here; a detection cycle computes its runs
\* (they depend on the sweep, the baseline and the history only, none of
\* which changes during the loop) and enters the loop.  A sweep of another
\* shape than the session's is broadcast by numpy where its shape allows
\* it; where not, the call raises ValueError before it has changed the
\* state, and is no step.  The detection pass is modelled for sweeps of the
\* baseline's shape.
process_sweep(sw, max_sweeps) ==
    /\ pc["sweep"] = "idle"
    /\ BASELINE_COUNT + HIST_IDX < max_sweeps
    /\ BASELINE = NoArray /\ BASELINE_ACCUM # NoArray
          => Broadcastable(sw, Shape(BASELINE_ACCUM))
    /\ sweep' = sw
    /\ LET hist0 == IF BASELINE # NoArray /\ Shape(HISTORY[1])[1] = 0
                    THEN [h \in 1..HISTORY_LEN |-> Zeros(Shape(sw))]
                    ELSE HISTORY
           est   == Estimate(BASELINE, BASELINE_ACCUM, BASELINE_COUNT, sw)
       IN  /\ BASELINE' = est.BASELINE
           /\ BASELINE_ACCUM' = est.BASELINE_ACCUM
           /\ BASELINE_COUNT' = est.BASELINE_COUNT
           /\ baseline_npy' = IF BASELINE = NoArray /\ WarmUpDone(est.BASELINE_COUNT)
                              THEN Saved(baseline_npy, est.BASELINE)
                              ELSE baseline_npy
           /\ IF BASELINE = NoArray
              THEN /\ HISTORY' = IF BASELINE_ACCUM = NoArray
                                 THEN [h \in 1..HISTORY_LEN |-> Zeros(Shape(sw))]
                                 ELSE hist0
                   /\ printed' = [printed EXCEPT !["sweep"] =
                                    IF WarmUpDone(est.BASELINE_COUNT)
                                    THEN << Line("baseline") >> ELSE << >>]
                   /\ UNCHANGED << HIST_IDX, HIST_FILLED, pc, detected, pending >>
              ELSE IF ~HIST_FILLED
              THEN /\ Broadcastable(sw, Shape(hist0[1]))
                   /\ HISTORY' = [hist0 EXCEPT
                                    ![HIST_IDX + 1] = Broadcast(sw, Shape(hist0[1]))]
                   /\ HIST_IDX' = HIST_IDX + 1
                   /\ HIST_FILLED' = HistoryFull(HIST_IDX + 1)
                   /\ printed' = [printed EXCEPT !["sweep"] = << Line("time") >>]
                   /\ UNCHANGED << pc, detected, pending >>
              ELSE /\ HISTORY' = hist0
                   /\ detected' = Detect(sw, BASELINE, hist0)
                   /\ pending' = detected'
                   /\ pc' = [pc EXCEPT !["sweep"] = "loop"]
                   /\ printed' = [printed EXCEPT !["sweep"] = << Line("analysis") >>]
                   /\ UNCHANGED << HIST_IDX, HIST_FILLED >>
    /\ UNCHANGED << notdrone, TRACKED, slaves, gone, items, call, clock >>

\* Line 224: the loop reaches a surviving run and calls measure_rssi, which
\* reads the time and starts one thread per auxiliary device (lines 114-133).
sweep_measure ==
    /\ pc["sweep"] = "loop"
    /\ pending # <<>>
    /\ call' = [call EXCEPT !["sweep"] = NewCall(CenterOf(Head(pending).key), clock, slaves)]
    /\ clock' = Tick(clock)
    /\ pc' = [pc EXCEPT !["sweep"] = "join"]
    /\ UNCHANGED << notdrone, baseline_npy, detvars, TRACKED, slaves, sweep, detected, pending, gone, items, printed >>

\* Lines 135-138 and 225-238: measure_rssi has joined its threads and
\* returns; the run creates its entry, or starts to refresh it.
sweep_update ==
    /\ pc["sweep"] = "join"
    /\ Joined("sweep")
    /\ LET rec == Head(pending)
           i   == Find(TRACKED, rec.key)
       IN  IF i = 0
           THEN /\ TRACKED' = Append(TRACKED, NewEntry(rec, call["sweep"].timestamp,
                                                       call["sweep"].results))
                /\ pending' = Tail(pending)
                /\ call' = [call EXCEPT !["sweep"] = NoCall]
                /\ pc' = [pc EXCEPT !["sweep"] = "loop"]
                /\ printed' = [printed EXCEPT !["sweep"] =
                                 Append(@, AlertLine(rec, TRACKED'[Len(TRACKED')]))]
           ELSE /\ TRACKED' = [TRACKED EXCEPT
                                 ![i] = RefreshLevels(@, rec, call["sweep"].results)]
                /\ pc' = [pc EXCEPT !["sweep"] = "stamp"]
                /\ UNCHANGED << pending, call, printed >>
    /\ UNCHANGED << notdrone, baseline_npy, detvars, slaves, sweep, detected, gone, items, clock >>

\* Lines 239-257: the rest of the refresh, and the record of the range.
sweep_stamp ==
    /\ pc["sweep"] = "stamp"
    /\ LET rec == Head(pending)
           i   == Find(TRACKED, rec.key)
       IN  /\ TRACKED' = [TRACKED EXCEPT ![i] = RefreshStamp(@, rec, call["sweep"].timestamp)]
           /\ printed' = [printed EXCEPT !["sweep"] = Append(@, AlertLine(rec, TRACKED'[i]))]
    /\ pending' = Tail(pending)
    /\ call' = [call EXCEPT !["sweep"] = NoCall]
    /\ pc' = [pc EXCEPT !["sweep"] = "loop"]
    /\ UNCHANGED << notdrone, baseline_npy, detvars, slaves, sweep, detected, gone, items, clock >>

\* the push that lands on the newest sweep held instead of the oldest
PushSlot_Newest(idx) == ((idx + HISTORY_LEN - 1) % HISTORY_LEN) + 1

\* Line 272: the slot HISTORY[HIST_IDX % HISTORY_LEN], counted from 1.
PushSlot(idx) == (idx % HISTORY_LEN) + 1

\* Lines 260-273: after the loop, the eviction pass and the push of the
\* sweep into the history.  The updater's references to a deleted entry
\* now point to a dict that is no longer in TRACKED.
sweep_finish ==
    /\ pc["sweep"] = "loop"
    /\ pending = <<>>
    /\ TRACKED' = EvictPass(TRACKED, sweep)
    /\ items' = [n \in 1..Len(items) |->
                   IF Find(TRACKED, items[n].key) # 0
                      /\ Evicted(sweep, TRACKED[Find(TRACKED, items[n].key)])
                   THEN [items[n] EXCEPT !.live = FALSE] ELSE items[n]]
    /\ HISTORY' = [HISTORY EXCEPT ![PushSlot(HIST_IDX)] = sweep]
    /\ HIST_IDX' = HIST_IDX + 1
    /\ pc' = [pc EXCEPT !["sweep"] = "idle"]
    /\ gone' = gone \cup {TRACKED[n].key : n \in {m \in 1..Len(TRACKED) : Evicted(sweep, TRACKED[m])}}
    /\ printed' = [printed EXCEPT !["sweep"] =
                     IF detected = << >>
                     THEN @ \o << Line("time"), Line("quiet") >>
                     ELSE Append(@, Line("time"))]
    /\ UNCHANGED << notdrone, baseline_npy, BASELINE_ACCUM, BASELINE_COUNT, BASELINE, HIST_FILLED,
                    slaves, sweep, detected, pending, call, clock >>

\* -------------------------------------------------------- _update_tracked
\* Line 147: list(TRACKED.items()).
updater_snapshot ==
    /\ pc["updater"] = "top"
    /\ items' = [n \in 1..Len(TRACKED) |-> [key |-> TRACKED[n].key, live |-> TRUE]]
    /\ pc' = [pc EXCEPT !["updater"] = "iter"]
    /\ printed' = [printed EXCEPT !["updater"] = << >>]
    /\ UNCHANGED << notdrone, baseline_npy, detvars, TRACKED, slaves, sweep, detected, pending, gone, call, clock >>

\* Line 149: the list is exhausted; sleep, then take the next list.
updater_sleep ==
    /\ pc["updater"] = "iter"
    /\ items = <<>>
    /\ pc' = [pc EXCEPT !["updater"] = "top"]
    /\ UNCHANGED << notdrone, baseline_npy, detvars, TRACKED, slaves, sweep, detected, pending, gone, items, call, clock, printed >>

\* Lines 130-132: _refresh_range calls measure_rssi for the next item.
updater_measure ==
    /\ pc["updater"] = "iter"
    /\ items # <<>>
    /\ call' = [call EXCEPT !["updater"] = NewCall(CenterOf(Head(items).key), clock, slaves)]
    /\ clock' = Tick(clock)
    /\ pc' = [pc EXCEPT !["updater"] = "join"]
    /\ UNCHANGED << notdrone, baseline_npy, detvars, TRACKED, slaves, sweep, detected, pending, gone, items, printed >>

\* the write made through the map, TRACKED[key][f] = v: a key that is no
\* longer there comes back with an entry of its own
InfoWrite_ThroughMap(T, item, f, v) ==
    IF Find(T, item.key) # 0
    THEN [T EXCEPT ![Find(T, item.key)][f] = v]
    ELSE Append(T, [[key |-> item.key, baseline |-> 0, master |-> 0, slaves |-> << >>,
                     timestamp |-> 0, idx |-> << 0, 0, MIN_BINS >>, count |-> 1,
                     class |-> None] EXCEPT ![f] = v])

\* The write of field f of the dict an item refers to: it is seen in
\* TRACKED only while that dict is still the entry of its key.
InfoWrite(T, item, f, v) ==
    IF item.live THEN [T EXCEPT ![Find(T, item.key)][f] = v] ELSE T

\* Line 133: info["slaves"] = slave_vals, once measure_rssi has returned.
updater_slaves ==
    /\ pc["updater"] = "join"
    /\ Joined("updater")
    /\ TRACKED' = InfoWrite(TRACKED, Head(items), "slaves", call["updater"].results)
    /\ pc' = [pc EXCEPT !["updater"] = "stamp"]
    /\ UNCHANGED << notdrone, baseline_npy, detvars, slaves, sweep, detected, pending, gone, items, call, clock, printed >>

\* Lines 134-141: info["timestamp"] = ts and the printed record; the item
\* is done.
updater_stamp ==
    /\ pc["updater"] = "stamp"
    /\ TRACKED' = InfoWrite(TRACKED, Head(items), "timestamp", call["updater"].timestamp)
    /\ items' = Tail(items)
    /\ call' = [call EXCEPT !["updater"] = NoCall]
    /\ pc' = [pc EXCEPT !["updater"] = "iter"]
    /\ printed' = [printed EXCEPT !["updater"] = Append(@, RefreshLine(Head(items).key))]
    /\ UNCHANGED << notdrone, baseline_npy, detvars, slaves, sweep, detected, pending, gone, clock >>

\* ------------------------------------------------- the threads of a round
\* Lines 120-121: hackrf_set_freq and hackrf_start_rx on device i.
worker_tune(c, i) ==
    /\ call[c].active
    /\ i \in 1..Len(call[c].wpc)
    /\ call[c].wpc[i] = "start"
    /\ call' = [call EXCEPT ![c].wpc[i] = "wait"]
    /\ UNCHANGED << notdrone, baseline_npy, detvars, TRACKED, slaves, pc, sweep, detected, pending, gone, items, clock, printed >>

\* Lines 88-106: the device delivers a buffer to _rssi_callback, which
\* stores the level r and sets the event.
rssi_callback(c, i, r) ==
    /\ call[c].active
    /\ i \in 1..Len(call[c].wpc)
    /\ call[c].wpc[i] = "wait"
    /\ ~call[c].ctx[i].event
    /\ call' = [call EXCEPT ![c].ctx[i] = [event |-> TRUE, result |-> r]]
    /\ UNCHANGED << notdrone, baseline_npy, detvars, TRACKED, slaves, pc, sweep, detected, pending, gone, items, clock, printed >>

\* Lines 123-125: the wait ends, hackrf_stop_rx, the result is stored.
worker_finish(c, i) ==
    /\ call[c].active
    /\ i \in 1..Len(call[c].wpc)
    /\ call[c].wpc[i] = "wait"
    /\ call[c].ctx[i].event
    /\ call' = [call EXCEPT ![c].wpc[i] = "done",
                            ![c].results[i] = call[c].ctx[i].result]
    /\ UNCHANGED << notdrone, baseline_npy, detvars, TRACKED, slaves, pc, sweep, detected, pending, gone, items, clock, printed >>

\* ------------------------------------------------------------------ inputs
\* Levels of the sweeps: the noise floor, a strong and a weak signal above
\* it and a notch below it.
FloorLevel == 0 - 105
HotLevel == 0 - 90
WarmLevel == 0 - 95
DeepLevel == 0 - 120

\* a row at the floor with bins start..end-1 at level
RunRow(start, end, level) ==
    [b \in 1..Bins |-> IF start < b /\ b <= end THEN level ELSE FloorLevel]

\* a sweep whose first row is row, the others at the floor
SweepOf(row) == [s \in 1..Steps |-> IF s = 1 THEN row ELSE RunRow(0, 0, FloorLevel)]

SweepInputs ==
    { SweepOf(RunRow(0, 0, HotLevel)),
      SweepOf(RunRow(0, MIN_BINS, WarmLevel)),
      SweepOf(RunRow(0, Bins, HotLevel)),
      SweepOf(RunRow(Bins - 1, Bins, HotLevel)),
      SweepOf(RunRow(0, MIN_BINS, DeepLevel)) }

\* persisted baselines (baseline.npy): flat at a level
FlatBaseline(level) == [s \in 1..Steps |-> [b \in 1..Bins |-> Q * level]]

BaselineFiles == { FlatBaseline(FloorLevel), FlatBaseline(DeepLevel) }

\* levels an auxiliary device reports
Readings == { 0 - 55 }

\* ------------------------------------------------------------- the program
\* Lines 43-60 of drone_detection.py and start_sweep: the state when the
\* first sweep is delivered, with base the persisted baseline (NoArray for
\* none) and devs the auxiliary devices that could be opened.
InitDrone(base, devs) ==
    /\ BASELINE_ACCUM = NoArray
    /\ BASELINE_COUNT = IF base = NoArray THEN 0 ELSE BASELINE_SWEEPS
    /\ BASELINE = base
    /\ baseline_npy = [array |-> base, saves |-> 0]
    /\ HISTORY = [h \in 1..HISTORY_LEN |-> IF base = NoArray THEN <<>> ELSE Zeros(Shape(base))]
    /\ HIST_IDX = 0
    /\ HIST_FILLED = FALSE
    /\ TRACKED = <<>>
    /\ slaves = devs
    /\ pc = [c \in Callers |-> IF c = "sweep" THEN "idle" ELSE "top"]
    /\ sweep = <<>>
    /\ detected = <<>>
    /\ pending = <<>>
    /\ gone = {}
    /\ items = <<>>
    /\ call = [c \in Callers |-> NoCall]
    /\ clock = 0
    /\ printed = [c \in Callers |-> << >>]

\* drone_detection.py imports nothing of core/sdr.py (lines 14-20): while it
\* runs no device object exists and no sweep() call is made.
NoSdr ==
    /\ start_sweep = None
    /\ device = None
    /\ stop_event = FALSE
    /\ sdr_pc = "idle"
    /\ delivered = << >>
    /\ captured = << >>

\* No call of _classify is looked at on its own.
NoCall_classify ==
    /\ cls_args = << >>
    /\ cls_label = "uncalled"

\* Nor does it import utils/config.py or the GUI.
NoGui ==
    /\ config_file = [kind |-> "missing", value |-> << >>]
    /\ cfg = None
    /\ window = "none"
    /\ win_device = None
    /\ worker = << >>
    /\ device_menu = << >>
    /\ threads = {}
    /\ start_action = TRUE
    /\ stop_action = TRUE

\* No helper is called outside process_sweep.
NoCall_helper ==
    /\ fn_arg = << >>
    /\ fn_ret = << >>

InitWith(base, devs) ==
    InitDrone(base, devs) /\ NoSdr /\ NoCall_classify /\ NoGui /\ NoCall_helper

\* The sweep callback after the call of process_sweep, up to its return.
SweepPath == sweep_measure \/ sweep_update \/ sweep_stamp \/ sweep_finish

\* The updater thread started before start_sweep (lines 294-295).
Updater ==
    updater_snapshot \/ updater_sleep \/ updater_measure \/ updater_slaves \/ updater_stamp

\* The worker thread of caller c's round on device i.
Worker(c, i) == worker_tune(c, i) \/ worker_finish(c, i)

\* The whole program, a persisted baseline present and one auxiliary
\* device connected.
Init == \E base \in BaselineFiles : InitWith(base, <<1>>)

Next ==
    \/ \E sw \in SweepInputs : process_sweep(sw, MaxSweeps)
    \/ SweepPath
    \/ Updater
    \/ \E c \in Callers, i \in 1..MAX_SLAVES : Worker(c, i)
    \/ \E c \in Callers, i \in 1..MAX_SLAVES, r \in Readings : rssi_callback(c, i, r)

Spec == Init /\ [][Next]_vars

\* The same program with two auxiliary devices connected, the sweeps of a
\* quiet band in which one signal comes and goes, and two levels a device
\* may report.
CorrInputs ==
    { SweepOf(RunRow(0, 0, HotLevel)), SweepOf(RunRow(0, MIN_BINS, HotLevel)) }

CorrReadings == { 0 - 55, 0 - 60 }

InitCorr == InitWith(FlatBaseline(FloorLevel), [i \in 1..MAX_SLAVES |-> i])

NextCorr ==
    \/ \E sw \in CorrInputs : process_sweep(sw, MaxSweeps)
    \/ SweepPath
    \/ Updater
    \/ \E c \in Callers, i \in 1..MAX_SLAVES : Worker(c, i)
    \/ \E c \in Callers, i \in 1..MAX_SLAVES, r \in CorrReadings : rssi_callback(c, i, r)

SpecCorr == InitCorr /\ [][NextCorr]_vars

\* Every thread that can take a step is scheduled in the end; nothing makes
\* the sweep source deliver another sweep or a device deliver a buffer.
FairCorr ==
    /\ SpecCorr
    /\ WF_vars(SweepPath)
    /\ WF_vars(Updater)
    /\ \A c \in Callers, i \in 1..MAX_SLAVES : WF_vars(Worker(c, i))

\* The sweep path alone, no auxiliary device connected: process_sweep driven
\* with every row over two levels once the history is full, from a
\* persisted baseline below, at or above those levels.
MaxDetSweeps == 9

AllRows == [1..Bins -> {FloorLevel, HotLevel}]

DetInputs == { SweepOf(row) : row \in AllRows }

FillInputs ==
    { SweepOf(RunRow(0, 0, HotLevel)),
      SweepOf(RunRow(0, MIN_BINS, HotLevel)),
      SweepOf(RunRow(0, Bins, HotLevel)) }

DetBaselines ==
    { FlatBaseline(FloorLevel), FlatBaseline(DeepLevel), FlatBaseline(HotLevel) }

InitDetect == \E base \in DetBaselines : InitWith(base, <<>>)

NextDetect ==
    \/ \E sw \in (IF HIST_FILLED THEN DetInputs ELSE FillInputs) :
          process_sweep(sw, MaxDetSweeps)
    \/ SweepPath

SpecDetect == InitDetect /\ [][NextDetect]_vars

\* hackrf_sweep/core.py:188-205: of the serials other than the master's
\* the first MAX_SLAVES are tried, and those whose hackrf_open_by_serial
\* returned 0 (opens[s]) become the auxiliary devices.
OpenedSlaves_KeepFailed(slave_serials, opens) ==
    SubSeq(slave_serials, 1,
           IF Len(slave_serials) < MAX_SLAVES THEN Len(slave_serials) ELSE MAX_SLAVES)

OpenedSlaves(slave_serials, opens) ==
    SelectSeq(SubSeq(slave_serials, 1,
                     IF Len(slave_serials) < MAX_SLAVES THEN Len(slave_serials)
                     ELSE MAX_SLAVES),
              LAMBDA s : opens[s])

\* The sweep path of a session in which no auxiliary device could be
\* opened: none is connected, or every one that is fails to open.
MaxSerials == 3

InitNoAux ==
    \E base \in DetBaselines, n \in 0..MaxSerials :
        InitWith(base, OpenedSlaves([i \in 1..n |-> i], [i \in 1..n |-> FALSE]))

SpecNoAux == InitNoAux /\ [][NextDetect]_vars

\* The program with one auxiliary device that hears a signal fading with
\* time: the level it reports in a round is fixed by the time at which the
\* round began.
ReadingAt(ts) == 0 - (55 + ts)

InitRace == InitWith(FlatBaseline(FloorLevel), <<1>>)

NextRace ==
    \/ \E sw \in CorrInputs : process_sweep(sw, MaxSweeps)
    \/ SweepPath
    \/ Updater
    \/ \E c \in Callers, i \in 1..MAX_SLAVES : Worker(c, i)
    \/ \E c \in Callers, i \in 1..MAX_SLAVES :
          rssi_callback(c, i, ReadingAt(call[c].timestamp))

SpecRace == InitRace /\ [][NextRace]_vars

\* The whole program started with no persisted baseline and one auxiliary
\* device: the warm-up, the filling of the history and the first detection
\* cycles, on a quiet band in which one signal comes and goes.
MaxStartSweeps == 9

StartInputs ==
    { SweepOf(RunRow(0, 0, HotLevel)), SweepOf(RunRow(0, MIN_BINS, HotLevel)) }

InitStart == InitWith(NoArray, <<1>>)

NextStart ==
    \/ \E sw \in StartInputs : process_sweep(sw, MaxStartSweeps)
    \/ SweepPath
    \/ Updater
    \/ \E c \in Callers, i \in 1..MAX_SLAVES : Worker(c, i)
    \/ \E c \in Callers, i \in 1..MAX_SLAVES, r \in Readings : rssi_callback(c, i, r)

SpecStart == InitStart /\ [][NextStart]_vars

\* The warm-up and the filling of the history of a session in which the
\* source delivers, besides sweeps of Steps x Bins, a sweep with a single
\* bin in each row.
NarrowSweep(level) == [s \in 1..Steps |-> << level >>]

ShapeInputs ==
    { SweepOf(RunRow(0, 0, HotLevel)), SweepOf(RunRow(0, MIN_BINS, HotLevel)),
      NarrowSweep(HotLevel) }

InitShape == InitWith(NoArray, << >>)

NextShape ==
    \E sw \in ShapeInputs : process_sweep(sw, BASELINE_SWEEPS + HISTORY_LEN)

SpecShape == InitShape /\ [][NextShape]_vars

\* ------------------------------------------------ the warm-up in float32
\* The sweep is a float32 array (hackrf_sweep/core.py:36) and BASELINE_ACCUM
\* is np.zeros_like(sweep), so lines 171 and 174 add and divide in float32,
\* each result rounded to the nearest value of 24 significant bits, ties to
\* even.  process_sweep above is driven with whole dB, where these sums are
\* exact; here a level is a whole number of 1/F32PerDb dB, which is the
\* spacing of float32 between 64 and 128 dB, and a level is 0 or at least
\* 64 dB in magnitude, so that every value of the warm-up is a whole number
\* of these units.
F32Top == 2^24
F32PerDb == 2^17

\* the spacing of float32 at magnitude m: 1 below F32Top, doubling from there
RECURSIVE F32UlpFrom(_, _)
F32UlpFrom(m, u) == IF m < F32Top * u THEN u ELSE F32UlpFrom(m, 2 * u)

F32Ulp(m) == F32UlpFrom(m, 1)

\* the whole number nearest to num / den, ties to the even one
F32Nearest(num, den) ==
    LET f == num \div den
        r == num % den
    IN  IF 2 * r > den \/ (2 * r = den /\ f % 2 = 1) THEN f + 1 ELSE f

\* the float32 nearest to num / den
F32Round(num, den) ==
    LET mag == Abs(num)
        u   == F32Ulp(mag \div den)
        n   == F32Nearest(mag, den * u) * u
    IN  IF num < 0 THEN 0 - n ELSE n

\* line 171: BASELINE_ACCUM += sweep
AddArrF32(a, b) ==
    [s \in 1..Len(a) |-> [i \in 1..Len(a[s]) |-> F32Round(a[s][i] + b[s][i], 1)]]

\* line 174: BASELINE_ACCUM / BASELINE_SWEEPS
DivArrF32(a, k) ==
    [s \in 1..Len(a) |-> [i \in 1..Len(a[s]) |-> F32Round(a[s][i], k)]]

\* Lines 167-177: a warm-up call of process_sweep on float32 levels.
process_sweep_f32(sw) ==
    /\ pc["sweep"] = "idle"
    /\ BASELINE = NoArray
    /\ sweep' = sw
    /\ LET first == BASELINE_ACCUM = NoArray
           accum == AddArrF32(IF first THEN Zeros(Shape(sw)) ELSE BASELINE_ACCUM, sw)
       IN  /\ BASELINE_ACCUM' = accum
           /\ HISTORY' = IF first
                         THEN [h \in 1..HISTORY_LEN |-> Zeros(Shape(sw))]
                         ELSE HISTORY
           /\ BASELINE_COUNT' = BASELINE_COUNT + 1
           /\ BASELINE' = IF WarmUpDone(BASELINE_COUNT + 1)
                          THEN DivArrF32(accum, BASELINE_SWEEPS) ELSE BASELINE
           /\ baseline_npy' = IF WarmUpDone(BASELINE_COUNT + 1)
                              THEN Saved(baseline_npy, DivArrF32(accum, BASELINE_SWEEPS))
                              ELSE baseline_npy
           /\ printed' = [printed EXCEPT !["sweep"] =
                            IF WarmUpDone(BASELINE_COUNT + 1)
                            THEN << Line("baseline") >> ELSE << >>]
    /\ UNCHANGED << notdrone, HIST_IDX, HIST_FILLED, TRACKED, slaves, pc, detected,
                    pending, gone, items, call, clock >>

\* levels told apart: neighbouring float32 values from the noise floor down
MaxF32Levels == 40

F32Levels == {0} \cup { FloorLevel * F32PerDb - k : k \in 0..(MaxF32Levels - 1) }

F32Sweeps == { [s \in 1..Steps |-> [b \in 1..Bins |-> v]] : v \in F32Levels }

\* The warm-up of a session with no persisted baseline on a steady band:
\* the source delivers the same sweep every time.
InitF32 == InitWith(NoArray, <<>>)

NextF32 ==
    \E sw \in F32Sweeps :
        /\ BASELINE_ACCUM = NoArray \/ sw = sweep
        /\ process_sweep_f32(sw)

SpecF32 == InitF32 /\ [][NextF32]_vars

\* -------------------------------------------------------------- core/sdr.py
\* The functions the name start_sweep of core/sdr.py can be bound to: None
\* when the import of hackrf_sweep failed (lines 14-18), the function of
\* hackrf_sweep/core.py, and the two stand-ins of tests/test_sdr.py.
Repository == "hackrf_sweep.core.start_sweep"
SimulatedOnce == "test_sdrdevice_sweep.simulate_start_sweep"
SimulatedLoop == "test_sdrdevice_sweep_stop_event.simulate_start_sweep"

\* The parameters each of them can be passed by keyword.
KeywordsOf(f) ==
    IF f = Repository
    THEN {"config_path", "serial"}
    ELSE {"cb", "config_path", "serial", "stop_event"}

\* Lines 78-80: the keywords of the call SDRDevice.sweep makes.
SweepKeywords == {"config_path", "serial", "stop_event"}

\* Python's binding of a call: a keyword the function does not declare
\* raises TypeError before its body runs.
Binds(f, keywords) == keywords \subseteq KeywordsOf(f)

\* the flattening that walks the array column by column
RECURSIVE ravel_ColumnMajor(_)
ravel_ColumnMajor(data) ==
    IF data = << >> \/ Head(data) = << >> THEN << >>
    ELSE [r \in 1..Len(data) |-> Head(data[r])]
         \o ravel_ColumnMajor([r \in 1..Len(data) |-> Tail(data[r])])

\* Line 76: data.ravel(), the rows of the array one after the other.
RECURSIVE ravel(_)
ravel(data) == IF data = << >> THEN << >> ELSE Head(data) \o ravel(Tail(data))

\* Line 39 of tests/test_sdr.py: the stand-in sets the event itself after
\* this many sweeps.
SimStopAfter == 2

\* SDRDevice.sweep, lines 72-80, up to the entry into start_sweep.
sdr_sweep ==
    /\ device = "SDRDevice"
    /\ sdr_pc = "idle"
    /\ sdr_pc' = IF start_sweep = None THEN "RuntimeError"
                 ELSE IF ~Binds(start_sweep, SweepKeywords) THEN "TypeError"
                 ELSE IF start_sweep = SimulatedOnce THEN "cb"
                 ELSE "while"
    /\ UNCHANGED << notsdr, start_sweep, device, stop_event, delivered, captured >>

\* start_sweep hands sw to _handle (line 75-76), which calls the user
\* callback with its flattening.
Handle(sw) ==
    /\ delivered' = Append(delivered, sw)
    /\ captured' = Append(captured, ravel(sw))

\* Lines 18-19 of tests/test_sdr.py: one sweep, then the return.
sim_once(sw) ==
    /\ device = "SDRDevice"
    /\ start_sweep = SimulatedOnce
    /\ sdr_pc = "cb"
    /\ Handle(sw)
    /\ sdr_pc' = "returned"
    /\ UNCHANGED << notsdr, start_sweep, device, stop_event >>

\* Line 34 of tests/test_sdr.py: while not stop_event.is_set().
sim_while ==
    /\ device = "SDRDevice"
    /\ sdr_pc = "while"
    /\ sdr_pc' = IF stop_event THEN "returned" ELSE "cb"
    /\ UNCHANGED << notsdr, start_sweep, device, stop_event, delivered, captured >>

\* Lines 36-40 of tests/test_sdr.py: cb(sweep), i += 1, and the event set
\* once i == 2.
sim_deliver(sw) ==
    /\ device = "SDRDevice"
    /\ start_sweep = SimulatedLoop
    /\ sdr_pc = "cb"
    /\ Handle(sw)
    /\ stop_event' = (stop_event \/ Len(delivered') = SimStopAfter)
    /\ sdr_pc' = "while"
    /\ UNCHANGED << notsdr, start_sweep, device >>

\* MockSDR.sweep, line 122-123, up to the loop.
mock_sweep ==
    /\ device = "MockSDR"
    /\ sdr_pc = "idle"
    /\ sdr_pc' = "while"
    /\ UNCHANGED << notsdr, start_sweep, device, stop_event, delivered, captured >>

\* Line 124: while not stop_event.is_set(). A behaviour goes round the loop
\* at most max_captured times before the event is set.
mock_while(max_captured) ==
    /\ device = "MockSDR"
    /\ sdr_pc = "while"
    /\ stop_event \/ Len(captured) < max_captured
    /\ sdr_pc' = IF stop_event THEN "returned" ELSE "callback"
    /\ UNCHANGED << notsdr, start_sweep, device, stop_event, delivered, captured >>

\* Lines 125-126: callback(power).
mock_callback(power) ==
    /\ device = "MockSDR"
    /\ sdr_pc = "callback"
    /\ captured' = Append(captured, power)
    /\ sdr_pc' = "wait"
    /\ UNCHANGED << notsdr, start_sweep, device, stop_event, delivered >>

\* Line 127: stop_event.wait(1.0) returns when the event is set, and after
\* a second when it is not.
mock_wait ==
    /\ device = "MockSDR"
    /\ sdr_pc = "wait"
    /\ sdr_pc' = "while"
    /\ UNCHANGED << notsdr, start_sweep, device, stop_event, delivered, captured >>

\* SweepWorker.stop of gui/sweep_worker.py, lines 57-58, called from the GUI
\* thread whatever the worker thread is doing: the event is set.
stop ==
    /\ stop_event' = TRUE
    /\ UNCHANGED << notsdr, start_sweep, device, sdr_pc, delivered, captured >>

\* steps x bins of the arrays a sweep source hands over
SdrSteps == 2
SdrBins == 2

\* Line 18 of tests/test_sdr.py: np.linspace(...).reshape(steps, bins), with
\* the spacing one unit.
Ramp(first) == [s \in 1..SdrSteps |-> [b \in 1..SdrBins |-> first + (s - 1) * SdrBins + (b - 1)]]

\* Line 36 of tests/test_sdr.py: np.full((steps, bins), float(i)).
Full(i) == [s \in 1..SdrSteps |-> [b \in 1..SdrBins |-> i]]

SdrSweeps == { Ramp(0 - 80), Ramp(0 - 20), Full(0), Full(1) }

\* bins of MockSDR.sweep (line 123), and the top of the magnitudes told apart
MockBins == 2
MaxPower == 1

\* Line 125: abs(rfft(randn(bins))), bins // 2 + 1 magnitudes, none negative.
MockPowers == [1..(MockBins \div 2 + 1) -> 0..MaxPower]

\* callbacks of the mock device in one behaviour
MaxCaptured == 3

\* A sweep() call with a stop event on a device of either class, start_sweep
\* bound to any of the functions it can be bound to, and a GUI thread that
\* may stop the sweep at any moment.
InitSdr ==
    /\ InitDrone(NoArray, << >>)
    /\ NoCall_classify
    /\ NoGui
    /\ NoCall_helper
    /\ start_sweep \in {None, Repository, SimulatedOnce, SimulatedLoop}
    /\ device \in {"SDRDevice", "MockSDR"}
    /\ stop_event = FALSE
    /\ sdr_pc = "idle"
    /\ delivered = << >>
    /\ captured = << >>

\* The thread inside sweep().
SweepCall ==
    \/ sdr_sweep
    \/ sim_while
    \/ \E sw \in SdrSweeps : sim_once(sw)
    \/ \E sw \in SdrSweeps : sim_deliver(sw)
    \/ mock_sweep
    \/ mock_while(MaxCaptured)
    \/ \E power \in MockPowers : mock_callback(power)
    \/ mock_wait

NextSdr == SweepCall \/ stop

SpecSdr == InitSdr /\ [][NextSdr]_vars

\* The same with the thread inside sweep() always scheduled again.
FairSdr == SpecSdr /\ WF_vars(SweepCall)

\* --------------------------------------------------------- _classify alone
\* Line 234, taken alone: the call returns its label.
classify_call ==
    /\ cls_label = "uncalled"
    /\ cls_label' = classify(cls_args[1], cls_args[2])
    /\ UNCHANGED << notclass, cls_args >>

\* how far, in half MHz, a centre lies from an edge of a band, and how far,
\* in MHz, a width lies from a limit
MaxOffCentre == 1
MaxOffWidth == 1

\* The edges of the bands of lines 117-123, in MHz.
BandEdges == {5740, 5820, 2402, 2483, 433 - 1, 433 + 1, 868 - 1, 868 + 1}

\* The limits of the widths of lines 117-123, in MHz.
WidthLimits == {15, 25, 5, 2}

\* Doubled centres at and next to the edges, and centres far from any band.
Centres2 ==
    { 2 * e + d : e \in BandEdges, d \in (0 - MaxOffCentre)..MaxOffCentre }
        \cup {2 * 433, 2 * 868, 2 * 100}

\* Widths at and next to the limits, and the empty and the reversed range.
Widths == { w + d : w \in WidthLimits, d \in (0 - MaxOffWidth)..MaxOffWidth } \cup {0, 0 - 2}

\* The ranges in whole MHz with such a centre and such a width.
ClassInputs ==
    { << (c2 - w) \div 2, (c2 + w) \div 2 >> :
        <<c2, w>> \in { p \in Centres2 \X Widths : (p[1] - p[2]) % 2 = 0 } }

InitClass ==
    /\ InitDrone(NoArray, << >>)
    /\ NoSdr
    /\ NoGui
    /\ NoCall_helper
    /\ cls_args \in ClassInputs
    /\ cls_label = "uncalled"

NextClass == classify_call

SpecClass == InitClass /\ [][NextClass]_vars

\* ---------------------------------------------------------- utils/config.py
\* Lines 8-17, the frequencies in kHz.
DEFAULT_CONFIG ==
    [freq_start |-> 50000, freq_stop |-> 6000000, freq_step |-> 5000,
     bin_size |-> 1, sample_rate |-> 2000, gain |-> 20, ppm |-> 0,
     avg_window |-> 1]

\* dict.update: the keys of other, with its values, into d.
Update(d, other) ==
    [k \in DOMAIN d \cup DOMAIN other |-> IF k \in DOMAIN other THEN other[k] ELSE d[k]]

\* Lines 32-37: a *_mhz key of the file sets the key in Hz beside it.
InHz(loaded, mhz_key, key) ==
    IF mhz_key \in DOMAIN loaded
    THEN Update(loaded, [k \in {key} |-> loaded[mhz_key] * 1000])
    ELSE loaded

Converted(loaded) ==
    InHz(InHz(InHz(loaded, "freq_start_mhz", "freq_start"),
              "freq_stop_mhz", "freq_stop"),
         "step_mhz", "freq_step")

\* load_config (lines 22-41) on a CONFIG_FILE that is missing, is not JSON,
\* holds a JSON array, or holds a JSON object: the exception that leaves
\* the function, None for none, and the dict returned.
load_config(file) ==
    IF file.kind = "missing" THEN [raised |-> None, value |-> DEFAULT_CONFIG]
    ELSE IF file.kind = "invalid" THEN [raised |-> None, value |-> DEFAULT_CONFIG]
    ELSE IF file.kind = "array" THEN [raised |-> "TypeError", value |-> << >>]
    ELSE [raised |-> None, value |-> Update(DEFAULT_CONFIG, Converted(file.value))]

\* Lines 84-115 of gui/main_window.py: the keys MainWindow.__init__ reads
\* by subscript, the same that cli.py, gui/sweep_worker.py and
\* gui/settings_dialog.py read.
AppKeys == {"level_min", "level_max", "freq_start", "freq_stop", "bin_size", "freq_step"}

\* The serials enumerate_devices (core/sdr.py, lines 83-106) can return.
Serials == {"serial_1", "serial_2"}

DeviceLists ==
    {<< >>} \cup { << a >> : a \in Serials }
        \cup { << a, b >> : <<a, b>> \in { p \in Serials \X Serials : p[1] # p[2] } }

\* SweepWorker.stop, lines 61-64, on the worker w: the event is set if run
\* has made it, and the caller waits for the thread, whose sweep call has
\* raised at once (start_sweep takes no stop_event) or ends on the event.
SweepWorker_stop(w, live) == live \ {w.id}

\* set_device, lines 197-201, as the window's fields after it.
set_device(dev, w, live) ==
    [worker |-> << >>,
     threads |-> IF w # << >> THEN SweepWorker_stop(w[1], live) ELSE live,
     device |-> dev]

\* MainWindow.__init__, lines 71-150: load_config, then the subscripts, the
\* toolbar (lines 125-136), the two fields (lines 147-148), and the menu of
\* devices, which refresh_devices (lines 178-195) fills and whose first
\* device it hands to set_device. An exception leaves before the toolbar.
MainWindow_init ==
    /\ window = "none"
    /\ LET loaded == load_config(config_file)
       IN  /\ cfg' = IF loaded.raised = None THEN loaded.value ELSE cfg
           /\ window' = IF loaded.raised # None THEN loaded.raised
                        ELSE IF AppKeys \subseteq DOMAIN loaded.value THEN "built"
                        ELSE "KeyError"
    /\ IF window' = "built"
       THEN \E devices \in DeviceLists :
                LET first == set_device(devices[1], << >>, {})
                IN  /\ start_action' = TRUE
                    /\ stop_action' = FALSE
                    /\ device_menu' = devices
                    /\ worker' = << >>
                    /\ threads' = IF devices = << >> THEN {} ELSE first.threads
                    /\ win_device' = IF devices = << >> THEN None ELSE first.device
       ELSE UNCHANGED guivars
    /\ UNCHANGED << notcfg, config_file >>

\* The keys a config.json is given, and their values: MHz for the *_mhz
\* keys, kHz for the frequencies, dB for the levels.
FileKeys ==
    {"freq_start_mhz", "freq_stop_mhz", "step_mhz", "freq_start", "bin_size",
     "level_min", "level_max"}

FileValue(k) ==
    IF k \in {"freq_start_mhz", "freq_stop_mhz", "step_mhz"} THEN 100
    ELSE IF k = "freq_start" THEN 70000
    ELSE IF k = "bin_size" THEN 2
    ELSE 0 - 60

\* What config.json can be when the application starts.
ConfigFiles ==
    { [kind |-> k, value |-> << >>] : k \in {"missing", "invalid", "array"} }
        \cup { [kind |-> "object", value |-> [k \in keys |-> FileValue(k)]] :
                 keys \in SUBSET FileKeys }

InitCfg ==
    /\ InitDrone(NoArray, << >>)
    /\ NoSdr
    /\ NoCall_classify
    /\ NoCall_helper
    /\ config_file \in ConfigFiles
    /\ cfg = None
    /\ window = "none"
    /\ win_device = None
    /\ worker = << >>
    /\ device_menu = << >>
    /\ threads = {}
    /\ start_action = TRUE
    /\ stop_action = TRUE

NextCfg == MainWindow_init

SpecCfg == InitCfg /\ [][NextCfg]_vars

\* ------------------------------------------------ gui/main_window.py, use
\* A toolbar action or a menu action calls its slot only while it is
\* enabled and the window is built.
\* start, lines 203-211, called by the Start action.
MainWindow_start ==
    /\ window = "built"
    /\ start_action
    /\ IF win_device = None \/ worker # << >>
       THEN UNCHANGED guivars
       ELSE LET id == CHOOSE n \in 1..(Cardinality(threads) + 1) : n \notin threads
            IN  /\ start_action' = FALSE
                /\ stop_action' = TRUE
                /\ worker' = << [id |-> id, device |-> win_device, cfg |-> cfg,
                                 stop_event |-> None] >>
                /\ threads' = threads \cup {id}
                /\ UNCHANGED << win_device, device_menu >>
    /\ UNCHANGED << notgui, cfgvars >>

\* stop, lines 213-219, called by the Stop action.
MainWindow_stop ==
    /\ window = "built"
    /\ stop_action
    /\ threads' = IF worker # << >> THEN SweepWorker_stop(worker[1], threads) ELSE threads
    /\ worker' = << >>
    /\ start_action' = TRUE
    /\ stop_action' = FALSE
    /\ UNCHANGED << notgui, cfgvars, win_device, device_menu >>

\* set_device, lines 197-201, called by the menu action of a device
\* (line 190).
MainWindow_set_device(dev) ==
    /\ window = "built"
    /\ \E i \in 1..Len(device_menu) : device_menu[i] = dev
    /\ LET after == set_device(dev, worker, threads)
       IN  /\ worker' = after.worker
           /\ threads' = after.threads
           /\ win_device' = after.device
    /\ UNCHANGED << notgui, cfgvars, device_menu, start_action, stop_action >>

\* SweepWorker.run, lines 33-36: the thread makes its stop event.
SweepWorker_run ==
    /\ worker # << >>
    /\ worker[1].id \in threads
    /\ worker[1].stop_event = None
    /\ worker' = << [worker[1] EXCEPT !.stop_event = "clear"] >>
    /\ UNCHANGED << notgui, cfgvars, win_device, device_menu, threads,
                    start_action, stop_action >>

\* SweepWorker.run, lines 56-59: the call of sweep has raised or returned,
\* an exception is passed over, and the thread ends. The window keeps its
\* reference to the worker.
SweepWorker_finished ==
    /\ worker # << >>
    /\ worker[1].id \in threads
    /\ worker[1].stop_event # None
    /\ threads' = threads \ {worker[1].id}
    /\ UNCHANGED << notgui, cfgvars, win_device, worker, device_menu,
                    start_action, stop_action >>

InitGui == InitCfg

NextGui ==
    \/ MainWindow_init
    \/ MainWindow_start
    \/ MainWindow_stop
    \/ \E dev \in Serials : MainWindow_set_device(dev)
    \/ SweepWorker_run
    \/ SweepWorker_finished

SpecGui == InitGui /\ [][NextGui]_vars

\* ------------------------------------------- sweeps of overlapping steps
\* A session whose sweeps have two steps of KeyBins bins: with STEP_MHZ a
\* whole multiple of BIN_WIDTH_MHZ and smaller than KeyBins * BIN_WIDTH_MHZ,
\* the bins from STEP_MHZ / BIN_WIDTH_MHZ on of a step lie on the
\* frequencies of the first bins of the next step.
KeySteps == 2
KeyBins == 5

\* a row at the floor with bins start..end-1 hot
KeyRow(start, end) ==
    [b \in 1..KeyBins |-> IF start < b /\ b <= end THEN HotLevel ELSE FloorLevel]

\* The rows told apart: the floor, a run at the head of the row, one at its
\* tail, and a longer one.
KeyRows ==
    { KeyRow(0, 0), KeyRow(0, MIN_BINS), KeyRow(KeyBins - MIN_BINS, KeyBins),
      KeyRow(0, KeyBins) }

KeyInputs == [1..KeySteps -> KeyRows]

KeyBaseline == [s \in 1..KeySteps |-> [b \in 1..KeyBins |-> Q * FloorLevel]]

\* sweeps of one behaviour, the warm-up the persisted baseline stands for
\* included
MaxKeySweeps == 9

InitKeys == InitWith(KeyBaseline, << >>)

NextKeys ==
    \/ \E sw \in (IF HIST_FILLED THEN KeyInputs ELSE {[s \in 1..KeySteps |-> KeyRow(0, 0)]}) :
          process_sweep(sw, MaxKeySweeps)
    \/ SweepPath

SpecKeys == InitKeys /\ [][NextKeys]_vars

\* ------------------------------------------------- sweeps told apart
\* The k-th sweep after the baseline is ready, with its number in the level
\* of its first bin and its other bins of the first row at the floor or hot.
Tagged(k, hot) ==
    SweepOf([b \in 1..Bins |-> IF b = 1 THEN FloorLevel - 3 * k
                               ELSE IF hot THEN HotLevel ELSE FloorLevel])

\* sweeps of one behaviour, the warm-up the persisted baseline stands for
\* included
MaxRingSweeps == 11

InitRing == InitWith(FlatBaseline(FloorLevel), << >>)

NextRing ==
    \/ \E hot \in BOOLEAN : process_sweep(Tagged(HIST_IDX + 1, hot), MaxRingSweeps)
    \/ SweepPath

SpecRing == InitRing /\ [][NextRing]_vars

\* ------------------------------------------------ a session after another
\* Lines 43-60 in a new process: the program is stopped between two sweeps
\* and started again, and finds the baseline.npy its predecessor left.
startup ==
    /\ pc["sweep"] = "idle"
    /\ pc["updater"] = "top"
    /\ sweep # << >>
    /\ BASELINE_ACCUM' = NoArray
    /\ BASELINE_COUNT' = IF baseline_npy.array = NoArray THEN 0 ELSE BASELINE_SWEEPS
    /\ BASELINE' = baseline_npy.array
    /\ baseline_npy' = [baseline_npy EXCEPT !.saves = 0]
    /\ HISTORY' = [h \in 1..HISTORY_LEN |->
                     IF baseline_npy.array = NoArray THEN << >>
                     ELSE Zeros(Shape(baseline_npy.array))]
    /\ HIST_IDX' = 0
    /\ HIST_FILLED' = FALSE
    /\ TRACKED' = << >>
    /\ sweep' = << >>
    /\ detected' = << >>
    /\ pending' = << >>
    /\ gone' = {}
    /\ items' = << >>
    /\ printed' = [c \in Callers |-> << >>]
    /\ UNCHANGED << notdrone, slaves, pc, call, clock >>

\* Sessions with and without a persisted baseline, no auxiliary device
\* connected.
InitRestart ==
    \E base \in {NoArray, FlatBaseline(FloorLevel)} : InitWith(base, << >>)

NextRestart ==
    \/ \E sw \in StartInputs : process_sweep(sw, MaxStartSweeps)
    \/ SweepPath
    \/ startup

SpecRestart == InitRestart /\ [][NextRestart]_vars

\* ------------------------------- overlapping steps on an uneven baseline
\* The same frequency plan on a band whose second step was learnt at a
\* lower level than the first: a signal that fills the tail of the first
\* step, and one on the same frequencies at the head of the second step
\* that rises less far.
OverlapBaseline ==
    [s \in 1..KeySteps |-> [b \in 1..KeyBins |-> Q * (IF s = 1 THEN FloorLevel ELSE DeepLevel)]]

\* a row at level rest whose bins start..end-1 lie at level
LevelRow(start, end, level, rest) ==
    [b \in 1..KeyBins |-> IF start < b /\ b <= end THEN level ELSE rest]

OverlapInputs ==
    { << first, second >> :
        first \in { LevelRow(0, 0, HotLevel, FloorLevel),
                    LevelRow(KeyBins - MIN_BINS, KeyBins, HotLevel, FloorLevel) },
        second \in { LevelRow(0, 0, FloorLevel + 5, DeepLevel),
                     LevelRow(0, MIN_BINS, FloorLevel + 5, DeepLevel) } }

InitOverlap == InitWith(OverlapBaseline, << >>)

NextOverlap ==
    \/ \E sw \in OverlapInputs : process_sweep(sw, MaxKeySweeps)
    \/ SweepPath

SpecOverlap == InitOverlap /\ [][NextOverlap]_vars

\* -------------------------------------------------------- _segments alone
\* Lines 191-193 and 203-204 on one row: the two masks of the row against a
\* flat baseline, and the runs of each.
segments_call ==
    /\ fn_ret = << >>
    /\ LET base_row == [b \in 1..Len(fn_arg) |-> Q * FloorLevel]
       IN  fn_ret' = << [up |-> segments(MaskUp(fn_arg, base_row)),
                         down |-> segments(MaskDown(fn_arg, base_row))] >>
    /\ UNCHANGED << nothelp, fn_arg >>

\* the longest row
MaxRowLen == 5

\* A bin lies a threshold above the baseline, at it, or a threshold below.
RowLevels == {FloorLevel - THRESHOLD_DB, FloorLevel, FloorLevel + THRESHOLD_DB}

SegInputs == UNION { [1..n -> RowLevels] : n \in 0..MaxRowLen }

InitSeg ==
    /\ InitDrone(NoArray, << >>)
    /\ NoSdr
    /\ NoCall_classify
    /\ NoGui
    /\ fn_arg \in SegInputs
    /\ fn_ret = << >>

NextSeg == segments_call

SpecSeg == InitSeg /\ [][NextSeg]_vars

\* ------------------------------------------------ _top3_mean in float32
\* A segment is a slice of a float32 row.  arr[0] + arr[1] + arr[2] (line
\* 100) adds float32 scalars, each sum rounded to float32, and so does the
\* difference arr[i] - arr[i - 3] (line 105); float() converts exactly, and
\* window_sum is a Python float, whose additions are exact on these values.
\* The division by 3.0 is left to the reader of the result: it is kept as 6
\* times the mean, as top3_mean keeps it.
RECURSIVE Top3LoopF32(_, _, _, _)
Top3LoopF32(arr, i, window_sum, max_sum) ==
    IF i >= Len(arr) THEN max_sum
    ELSE LET ws == window_sum + F32Round(arr[i + 1] - arr[i - 2], 1)
         IN  Top3LoopF32(arr, i + 1, ws, IF ws > max_sum THEN ws ELSE max_sum)

\* arr.mean() of a float32 array of one or two bins (line 97): the sum is
\* accumulated in float32, and halving a float32 is exact
MeanF32(arr) ==
    IF Len(arr) = 1 THEN 6 * arr[1] ELSE 3 * F32Round(arr[1] + arr[2], 1)

\* 6 * _top3_mean(arr), arr of float32 levels in units of 1/F32PerDb dB
top3_mean_f32(arr) ==
    IF Len(arr) < 3
    THEN MeanF32(arr)
    ELSE LET w0 == F32Round(F32Round(arr[1] + arr[2], 1) + arr[3], 1)
         IN  2 * Top3LoopF32(arr, 3, w0, w0)

\* Lines 210-213: _top3_mean is called on a segment.
top3_call ==
    /\ fn_ret = << >>
    /\ fn_ret' = << top3_mean_f32(fn_arg) >>
    /\ UNCHANGED << nothelp, fn_arg >>

\* the longest segment, and how many float32 steps below a whole dB a level
\* can lie
MaxSegLen == 4
MaxOffUlp == 1

\* Levels of a segment: the noise floor and a signal, a whole dB each or a
\* little under it.
Top3Levels ==
    { l * F32PerDb - k : l \in {FloorLevel, HotLevel}, k \in 0..MaxOffUlp }

Top3Inputs == UNION { [1..n -> Top3Levels] : n \in 1..MaxSegLen }

InitTop3 ==
    /\ InitDrone(NoArray, << >>)
    /\ NoSdr
    /\ NoCall_classify
    /\ NoGui
    /\ fn_arg \in Top3Inputs
    /\ fn_ret = << >>

NextTop3 == top3_call

SpecTop3 == InitTop3 /\ [][NextTop3]_vars

\* ------------------------------------------------- the robust delta
\* _top3_mean divides the window sum by 3.0 (lines 101, 106), a division of
\* Python floats that rounds the quotient to 53 significant bits.  For a
\* whole n of magnitude 3 or more the quotient n / 3 has 52 - e bits after
\* the point, e the exponent of its magnitude; a remainder of 1 leaves 1/3
\* or 2/3 of the last place behind as that count is even or odd, a remainder
\* of 2 the other way round, and the nearest double lies 1/3 of a last place
\* off.  Div3Err is that error, in units of 2^-52 / 3: positive where the
\* double lies above n / 3.
RECURSIVE Log2From(_, _)
Log2From(x, e) == IF 2^(e + 1) > x THEN e ELSE Log2From(x, e + 1)

Div3Err(n) ==
    LET m == Abs(n)
        r == m % 3
        e == Log2From(m \div 3, 0)
        up == (r = 1 /\ (52 - e) % 2 = 1) \/ (r = 2 /\ (52 - e) % 2 = 0)
        mag == IF up THEN 2^e ELSE 0 - 2^e
    IN  IF r = 0 THEN 0 ELSE IF n > 0 THEN mag ELSE 0 - mag

\* _top3_mean(arr) on whole dB, where the float32 sums are exact: the value
\* returned is six / 6 + err * 2^-52 / 3.  The quotient grows with the sum,
\* so the window of the greatest mean (line 107) is that of the greatest sum.
top3_mean_f64(arr) ==
    IF Len(arr) < 3
    THEN [six |-> (6 * SumSeq(arr)) \div Len(arr), err |-> 0]
    ELSE LET w0 == arr[1] + arr[2] + arr[3]
             max_sum == Top3Loop(arr, 3, w0, w0)
         IN  [six |-> 2 * max_sum, err |-> Div3Err(max_sum)]

\* mean_curr - mean_base against a level in dB: the difference of two such
\* doubles between 16 and 128 dB in magnitude is exact
Delta(mean_curr, mean_base) ==
    [six |-> mean_curr.six - mean_base.six, err |-> mean_curr.err - mean_base.err]

Below(d, db) == d.six < 6 * db \/ (d.six = 6 * db /\ d.err < 0)
Above(d, db) == d.six > 6 * db \/ (d.six = 6 * db /\ d.err > 0)

\* abs(mean_curr - mean_base) < THRESHOLD_DB                  (line 218)
WithinThresholdF64(mean_curr, mean_base) ==
    LET d == Delta(mean_curr, mean_base)
    IN  Below(d, THRESHOLD_DB) /\ Above(d, 0 - THRESHOLD_DB)

\* Lines 210-219 for one run: the two robust levels and whether line 218
\* rejects the run.
DeltaRecord(current_row, base_row, seg, sign) ==
    LET mean_base == top3_mean_f64(Slice(base_row, seg[1], seg[2]))
        mean_curr == top3_mean_f64(Slice(current_row, seg[1], seg[2]))
    IN  [start |-> seg[1], end |-> seg[2], sign |-> sign,
         mean_base |-> mean_base, mean_curr |-> mean_curr,
         rejected |-> WithinThresholdF64(mean_curr, mean_base)]

\* Lines 191-219 for one row: the runs of the up mask, then those of the
\* down mask, each with its robust delta.
delta_call ==
    /\ fn_ret = << >>
    /\ LET base_sums     == [b \in 1..Len(fn_arg.base_row) |-> Q * fn_arg.base_row[b]]
           up_segments   == segments(MaskUp(fn_arg.current_row, base_sums))
           down_segments == segments(MaskDown(fn_arg.current_row, base_sums))
       IN  fn_ret' = << [k \in 1..Len(up_segments) |->
                           DeltaRecord(fn_arg.current_row, fn_arg.base_row,
                                       up_segments[k], "+")]
                        \o [k \in 1..Len(down_segments) |->
                              DeltaRecord(fn_arg.current_row, fn_arg.base_row,
                                          down_segments[k], "-")] >>
    /\ UNCHANGED << nothelp, fn_arg >>

\* the longest row of a robust delta
MaxDeltaLen == 3

\* A bin of the baseline lies at one of two neighbouring whole levels, and
\* the sweep a threshold above it, at it, or a threshold below.
DeltaBins ==
    { << base, base + d * THRESHOLD_DB >> : base \in {0 - 73, 0 - 74}, d \in {0 - 1, 0, 1} }

DeltaInputs ==
    { [base_row |-> [b \in 1..p[1] |-> p[2][b][1]],
       current_row |-> [b \in 1..p[1] |-> p[2][b][2]]] :
        p \in UNION { {n} \X [1..n -> DeltaBins] : n \in 1..MaxDeltaLen } }

InitDelta ==
    /\ InitDrone(NoArray, << >>)
    /\ NoSdr
    /\ NoCall_classify
    /\ NoGui
    /\ fn_arg \in DeltaInputs
    /\ fn_ret = << >>

NextDelta == delta_call

SpecDelta == InitDelta /\ [][NextDelta]_vars

\* ================================================================= claims
\* Caller c's worker on device i is between hackrf_set_freq and
\* hackrf_stop_rx.
InRx(c, i) == call[c].active /\ i <= Len(call[c].wpc) /\ call[c].wpc[i] = "wait"

\* Caller c is blocked in measure_rssi on a device that has not delivered.
WaitsOnDevice(c) ==
    /\ pc[c] = "join"
    /\ \E i \in 1..Len(call[c].wpc) : call[c].wpc[i] = "wait" /\ ~call[c].ctx[i].event

\* C1: correlation rounds are mutually exclusive: in no reachable state are
\* the workers of the sweep path's round and of the updater's round both
\* between hackrf_set_freq and hackrf_stop_rx on the same auxiliary device.
C1_RoundsSerialized ==
    \A i \in 1..Len(slaves) : ~(InRx("sweep", i) /\ InRx("updater", i))

\* C2: every correlation round terminates: a call of measure_rssi that has
\* started has in the end joined all its workers and returns, also when a
\* device never delivers a measurement.
C2_RoundTerminates ==
    \A c \in Callers : call[c].active ~> Joined(c)

\* C3: the result of a round has one slot per auxiliary device and a device
\* that responded has its reading in its own slot, whatever the other
\* devices do (their slots hold the sentinel): once device i has delivered
\* in a round, the round completes with that reading in slot i.
C3_ResultPerDevice ==
    \A c \in Callers, i \in 1..MAX_SLAVES :
        (call[c].active /\ call[c].ctx[i].event)
            ~> (/\ Joined(c)
                /\ Len(call[c].results) = Len(slaves)
                /\ call[c].results[i] = call[c].ctx[i].result)

\* C4: processing of a sweep never waits on an auxiliary receiver: the
\* sweep path is in no state blocked on a device that has yet to deliver.
C4_SweepPathNeverWaits == ~WaitsOnDevice("sweep")

\* The robust level of a segment as the glossary defines it, times 6: the
\* largest mean of 3 consecutive bins, the plain mean below 3 bins.
MaxOf(S) == CHOOSE x \in S : \A y \in S : y <= x

RobustLevel(arr) ==
    IF Len(arr) < 3
    THEN (6 * SumSeq(arr)) \div Len(arr)
    ELSE MaxOf({2 * (arr[k] + arr[k + 1] + arr[k + 2]) : k \in 1..(Len(arr) - 2)})

\* bins start..end-1 of row step of a sweep-shaped array
BinsOf(arr, step, start, end) == [k \in 1..(end - start) |-> arr[step + 1][start + k]]

\* the robust current level of an entry in the latest sweep is within
\* threshold of its stored baseline level
BackAtBaseline(e) ==
    Abs(Q * RobustLevel(BinsOf(sweep, e.idx[1], e.idx[2], e.idx[3])) - e.baseline)
        < 6 * Q * THRESHOLD_DB

CycleDone == pc["sweep"] = "idle" /\ HIST_FILLED /\ HIST_IDX > HISTORY_LEN

\* C5: at the end of every detection cycle no entry remains whose robust
\* current level, re-sampled from the latest sweep at the entry's stored
\* bins, is within threshold of its stored baseline level, reconfirmed in
\* this cycle or not.
C5_NoEntryBackAtBaseline ==
    CycleDone => \A n \in 1..Len(TRACKED) : ~BackAtBaseline(TRACKED[n])

\* an entry that the cycle did not reconfirm has been evicted by it
C5_Witness ==
    /\ CycleDone
    /\ TRACKED # <<>>
    /\ \E k \in gone : k \notin Keys(TRACKED)
                       /\ \A n \in 1..Len(detected) : detected[n].key # k

\* bin b of row step crosses the threshold upwards / downwards
UpAt(step, b) ==
    Q * sweep[step + 1][b + 1] - BASELINE[step + 1][b + 1] >= Q * THRESHOLD_DB
DownAt(step, b) ==
    Q * sweep[step + 1][b + 1] - BASELINE[step + 1][b + 1] <= -(Q * THRESHOLD_DB)

\* start..end-1 is a maximal run of crossing bins of row step
MaximalRun(Crossing(_, _), step, start, end) ==
    /\ start < end
    /\ \A b \in start..(end - 1) : Crossing(step, b)
    /\ start > 0 => ~Crossing(step, start - 1)
    /\ end < Len(sweep[step + 1]) => ~Crossing(step, end)

Flagged(idx) ==
    MaximalRun(UpAt, idx[1], idx[2], idx[3]) \/ MaximalRun(DownAt, idx[1], idx[2], idx[3])

RunIdx(rec) == <<rec.step, rec.start, rec.end>>

\* C6: after every detection cycle the tracked map corresponds 1:1 with the
\* ranges that exceed the threshold: every surviving run of the latest
\* sweep has exactly one entry and every entry is a range that the latest
\* sweep still flags.
C6_TrackedMatchesFlagged ==
    CycleDone =>
        /\ \A r \in 1..Len(detected) :
              Cardinality({n \in 1..Len(TRACKED) : TRACKED[n].idx = RunIdx(detected[r])}) = 1
        /\ \A n \in 1..Len(TRACKED) : Flagged(TRACKED[n].idx)

\* C7: the Segment Detector yields no record, and the tracker holds no
\* entry, for a run shorter than min_bins.
C7_NoShortRun ==
    /\ \A r \in 1..Len(detected) : detected[r].end - detected[r].start >= MIN_BINS
    /\ \A n \in 1..Len(TRACKED) : TRACKED[n].idx[3] - TRACKED[n].idx[2] >= MIN_BINS

\* the only up-run of row step is start..end-1
OnlyUpRun(step, start, end) ==
    /\ start < end
    /\ \A b \in 0..(Len(sweep[step + 1]) - 1) : UpAt(step, b) <=> (start <= b /\ b < end)

\* the run passes the ignore-level and the dispersion filter
PassesFilters(step, start, end) ==
    /\ ~(/\ RobustLevel(BinsOf(BASELINE, step, start, end)) < 6 * Q * IGNORE_LEVEL_DBM
         /\ Q * RobustLevel(BinsOf(sweep, step, start, end)) < 6 * Q * IGNORE_LEVEL_DBM)
    /\ ~TooUnstable(HISTORY, step, start, end)

\* a detection cycle is between its detection and its eviction pass: the
\* history is the one the detector read
InCycle == pc["sweep"] \in {"loop", "join", "stamp"}

UpRecords(step) ==
    {r \in 1..Len(detected) : detected[r].step = step /\ detected[r].sign = "+"}

QualifyingRun(step, start, end) ==
    /\ OnlyUpRun(step, start, end)
    /\ end - start >= MIN_BINS
    /\ PassesFilters(step, start, end)

RunsOf(sw) ==
    {idx \in (0..(Len(sw) - 1)) \X (0..Len(sw[1])) \X (0..Len(sw[1])) : idx[2] < idx[3]}

C9_CreatedAtCountOne ==
    [][ (pc["sweep"] = "join" /\ Joined("sweep") /\ pc'["sweep"] # "join"
         /\ Head(pending).key \notin Keys(TRACKED))
        => LET rec == Head(pending)
               e   == TRACKED'[Len(TRACKED')]
           IN  /\ Len(TRACKED') = Len(TRACKED) + 1
               /\ SubSeq(TRACKED', 1, Len(TRACKED)) = TRACKED
               /\ e.key = rec.key
               /\ e.count = 1
               /\ e.baseline = RobustLevel(BinsOf(BASELINE, rec.step, rec.start, rec.end))
               /\ e.master = Q * RobustLevel(BinsOf(sweep, rec.step, rec.start, rec.end))
               /\ e.idx = RunIdx(rec) ]_vars

\* an entry at count 1 whose key was tracked and evicted before
C9_Witness ==
    \E n \in 1..Len(TRACKED) : TRACKED[n].count = 1 /\ TRACKED[n].key \in gone

\* C10: a tracked range reconfirmed by an identical run is refreshed in
\* place: the keys of the map are unchanged and no entry is added, its
\* master level and auxiliary readings become those of this cycle's run
\* and round, then its timestamp becomes the round's and its count grows
\* by exactly 1.
C10_RefreshedInPlace ==
    [][ LET rec == Head(pending)
            i   == Find(TRACKED, rec.key)
        IN  /\ (pc["sweep"] = "join" /\ pc'["sweep"] = "stamp"
                /\ TRACKED[i].idx = RunIdx(rec))
               => /\ Len(TRACKED') = Len(TRACKED)
                  /\ \A n \in 1..Len(TRACKED) : TRACKED'[n].key = TRACKED[n].key
                  /\ TRACKED'[i].master = rec.mean_curr
                  /\ TRACKED'[i].slaves = call["sweep"].results
                  /\ TRACKED'[i].count = TRACKED[i].count
            /\ (pc["sweep"] = "stamp" /\ pc'["sweep"] = "loop"
                /\ TRACKED[i].idx = RunIdx(rec))
               => /\ Len(TRACKED') = Len(TRACKED)
                  /\ \A n \in 1..Len(TRACKED) : TRACKED'[n].key = TRACKED[n].key
                  /\ TRACKED'[i].master = rec.mean_curr
                  /\ TRACKED'[i].timestamp = call["sweep"].timestamp
                  /\ TRACKED'[i].count = TRACKED[i].count + 1 ]_vars

\* a range is tracked at count 2 with the stamp of a later round
C10_Witness ==
    /\ pc["sweep"] = "loop"
    /\ \E n \in 1..Len(TRACKED) :
          TRACKED[n].count = 2 /\ TRACKED[n].timestamp > 0 /\ TRACKED[n].slaves # <<>>

\* C11: with no persisted baseline the baseline is absent during the first
\* BASELINE_SWEEPS - 1 observations, and after BASELINE_SWEEPS identical
\* sweeps it equals that sweep exactly.
C11_BaselineOfIdenticalSweeps ==
    /\ BASELINE_COUNT < BASELINE_SWEEPS => BASELINE = NoArray
    /\ BASELINE_COUNT = BASELINE_SWEEPS => BASELINE = sweep

\* C12: once the baseline is ready it is frozen: no later step, of a
\* history-fill sweep or of a detection cycle, changes any element of it.
C12_BaselineFrozen == [][BASELINE # NoArray => BASELINE' = BASELINE]_vars

\* a detection cycle has run to its end on a baseline learnt in this session
C12_Witness ==
    /\ BASELINE_ACCUM # NoArray
    /\ BASELINE = BASELINE_ACCUM
    /\ HIST_IDX > HISTORY_LEN
    /\ TRACKED # << >>
    /\ pc["sweep"] = "idle"

\* C13: the dispersion of the history is read only when the history is
\* full, that is after HISTORY_LEN sweeps have been pushed; a call that finds
\* the history still filling stores the sweep and runs no analysis.
C13_StdOnlyWhenFull ==
    [][ /\ pc["sweep"] = "idle" /\ pc'["sweep"] = "loop"
            => HIST_FILLED /\ HIST_IDX >= HISTORY_LEN
        /\ BASELINE # NoArray /\ ~HIST_FILLED
              /\ << sweep, HIST_IDX, HISTORY >>' # << sweep, HIST_IDX, HISTORY >>
            => /\ HISTORY' = [HISTORY EXCEPT ![HIST_IDX + 1] = sweep']
               /\ HIST_IDX' = HIST_IDX + 1
               /\ pc' = pc /\ detected' = detected /\ TRACKED' = TRACKED
               /\ call' = call ]_vars

\* the first analysis, right after the sweep that filled the history
C13_Witness ==
    /\ pc["sweep"] = "loop"
    /\ HIST_IDX = HISTORY_LEN
    /\ detected # << >>
    /\ printed["sweep"] = << Line("analysis") >>

\* sweeps process_sweep has been called with in a session without a
\* persisted baseline, the running one not counted before its history push
SweepsDone == BASELINE_COUNT + HIST_IDX

\* C14: with no persisted baseline, detection does not run during the
\* first BASELINE_SWEEPS + HISTORY_LEN sweeps: no tracked range exists, the
\* sweep path starts no correlation round; the next sweep is the first
\* detection cycle.
C14_NoDetectionBeforeWarm ==
    /\ SweepsDone < BASELINE_SWEEPS + HISTORY_LEN
           => /\ TRACKED = << >>
              /\ pc["sweep"] = "idle"
              /\ ~call["sweep"].active
              /\ ~HIST_FILLED
    /\ SweepsDone < BASELINE_SWEEPS => BASELINE = NoArray
    /\ SweepsDone >= BASELINE_SWEEPS + HISTORY_LEN => HIST_FILLED

\* the first detection cycle, sweep number BASELINE_SWEEPS + HISTORY_LEN + 1,
\* has started a correlation round
C14_Witness ==
    /\ SweepsDone = BASELINE_SWEEPS + HISTORY_LEN
    /\ BASELINE_ACCUM # NoArray
    /\ pc["sweep"] = "join"
    /\ call["sweep"].active

\* the shape fixed at the first observation of the session
SessionShape ==
    IF BASELINE_ACCUM # NoArray THEN Shape(BASELINE_ACCUM) ELSE Shape(BASELINE)

\* C15: a sweep whose shape differs from the session's is never silently
\* tolerated: after a call with such a sweep the baseline and the history
\* are reset, so that the warm-up starts again.
C15_ShapeMismatchResets ==
    sweep # << >> /\ Shape(sweep) # SessionShape
        => /\ BASELINE = NoArray
           /\ BASELINE_ACCUM = NoArray
           /\ BASELINE_COUNT = 0
           /\ HIST_IDX = 0

\* C16: a correlation result is applied to a tracked entry as a whole: in
\* every state in which no thread is between its writes to an entry, the
\* entry's auxiliary readings and its timestamp are those of one and the
\* same round, also when the refresher and the sweep path refresh the same
\* entry.
C16_ResultAppliedWhole ==
    (\A c \in Callers : pc[c] # "stamp")
        => \A n \in 1..Len(TRACKED) :
              TRACKED[n].slaves =
                  [i \in 1..Len(slaves) |-> ReadingAt(TRACKED[n].timestamp)]

\* a call of process_sweep returns in this step
Returns ==
    /\ pc'["sweep"] = "idle"
    /\ BASELINE_COUNT' # BASELINE_COUNT \/ HIST_IDX' # HIST_IDX

\* C17: every call of process_sweep, of a warm-up sweep, a history-fill
\* sweep or a detection cycle, has printed the per-cycle summary (the
\* timing line) when it returns.
C17_SummaryEveryCall ==
    [][ Returns => \E n \in 1..Len(printed'["sweep"]) :
                       printed'["sweep"][n].kind = "time" ]_vars

\* C18: with no auxiliary device a correlation round returns at once with
\* an empty list of readings, and the sweep path creates, refreshes and
\* evicts tracked ranges with empty readings.
C18_NoAuxRoundsReturnAtOnce ==
    /\ slaves = << >>
    /\ \A c \in Callers : call[c].active => Joined(c) /\ call[c].results = << >>
    /\ ~WaitsOnDevice("sweep")
    /\ \A n \in 1..Len(TRACKED) : TRACKED[n].slaves = << >>

\* one range has been created and refreshed after another was evicted
C18_Witness ==
    /\ slaves = << >>
    /\ gone # {}
    /\ \E n \in 1..Len(TRACKED) : TRACKED[n].count >= 2 /\ TRACKED[n].slaves = << >>

\* the ranges the sweeps of CorrInputs can flag
TrackKeys == { KeyOf(0, 0, MIN_BINS) }

\* C19: a range that stays in the tracked map is correlated by the
\* refresher again and again, whether or not another sweep arrives.
C19_RefresherKeepsCorrelating ==
    \A k \in TrackKeys :
        <>[](k \in Keys(TRACKED))
            => []<>(pc["updater"] = "stamp" /\ Head(items).key = k)

\* the lines the sweep path prints in this step
NewLines ==
    SubSeq(printed'["sweep"], Len(printed["sweep"]) + 1, Len(printed'["sweep"]))

\* key k is created, refreshed or evicted in this step
Transition(k) ==
    LET i == Find(TRACKED, k)
        j == Find(TRACKED', k)
    IN  \/ i = 0 /\ j # 0
        \/ i # 0 /\ j = 0
        \/ i # 0 /\ j # 0 /\ TRACKED'[j].count # TRACKED[i].count

\* C20: every creation, refresh and eviction of a tracked range prints
\* exactly one record for that range.
C20_TransitionsReported ==
    [][ \A k \in Keys(TRACKED) \cup Keys(TRACKED') :
          Transition(k)
              => Cardinality({ n \in 1..Len(NewLines) : NewLines[n].key = k }) = 1 ]_vars

\* C21: the eviction check run again on the map it has left is a no-op: it
\* deletes nothing more, and no key is held twice, so that no entry is
\* deleted twice, whatever the refresher does in between.
C21_EvictionIdempotent ==
    /\ Cardinality(Keys(TRACKED)) = Len(TRACKED)
    /\ CycleDone => EvictPass(TRACKED, sweep) = TRACKED

\* a cycle has ended with a range evicted that the refresher still refers to
C21_Witness ==
    /\ CycleDone
    /\ gone # {}
    /\ \E n \in 1..Len(items) : ~items[n].live

\* The sweep() calls the claim speaks of: those of MockSDR, and those of
\* SDRDevice with start_sweep the function of hackrf_sweep/core.py.
StopClaimed == device = "MockSDR" \/ (device = "SDRDevice" /\ start_sweep = Repository)

\* C22: setting the stop event ends the sweep: once the event is set the
\* user callback is not invoked again and the sweep() call in progress
\* returns, for MockSDR and for SDRDevice with the repository's start_sweep.
C22_StopEndsSweep ==
    /\ [][StopClaimed /\ stop_event => captured' = captured]_vars
    /\ (StopClaimed /\ stop_event /\ sdr_pc # "idle") ~> (sdr_pc = "returned")

\* C23: SDRDevice.sweep calls the user callback exactly once for every sweep
\* start_sweep delivers, in the order of delivery, each time with the
\* one-dimensional row-major flattening of the steps x bins array: steps
\* times bins elements, element (s, b) at offset s * bins + b, the first one
\* sweep[0][0].
C23_CallbackPerSweep ==
    device = "SDRDevice" =>
        /\ Len(captured) = Len(delivered)
        /\ \A n \in 1..Len(delivered) :
               LET sw == delivered[n]
                   flat == captured[n]
                   bins == Len(sw[1])
               IN  /\ Len(flat) = Len(sw) * bins
                   /\ flat[1] = sw[1][1]
                   /\ \A s \in 1..Len(sw), b \in 1..bins :
                          flat[(s - 1) * bins + b] = sw[s][b]

\* the callback has been called for two sweeps of several rows, the first
\* with levels that differ from bin to bin
C23_Witness ==
    /\ device = "SDRDevice"
    /\ sdr_pc = "returned"
    /\ Len(captured) = 2
    /\ Len(delivered[1]) > 1
    /\ delivered[1][1][1] # delivered[1][1][2]
    /\ delivered[2] # delivered[1]

\* The rules of the classification, on a centre c and a width w in MHz (the
\* centre given doubled).
RuleFPV(c2, w) == 2 * 5740 <= c2 /\ c2 <= 2 * 5820 /\ 15 <= w /\ w <= 25
RuleWiFi(c2, w) == 2 * 2402 <= c2 /\ c2 <= 2 * 2483 /\ w <= 5
Rule433(c2, w) == 2 * (433 - 1) <= c2 /\ c2 <= 2 * (433 + 1) /\ w <= 2
Rule868(c2, w) == 2 * (868 - 1) <= c2 /\ c2 <= 2 * (868 + 1) /\ w <= 2

\* C24: _classify is a pure function of (start, end): with center =
\* (start + end) / 2 and width = end - start it returns the FPV label iff
\* 5740 <= center <= 5820 and 15 <= width <= 25, the telemetry / Wi-Fi label
\* iff 2402 <= center <= 2483 and width <= 5, the 433 (868) MHz label iff
\* |center - 433| <= 1 (|center - 868| <= 1) and width <= 2, no label
\* otherwise; at most one rule matches an input; the call changes no state.
C24_ClassifyTable ==
    LET c2 == cls_args[1] + cls_args[2]
        w == cls_args[2] - cls_args[1]
        matching == { r \in 1..4 : << RuleFPV(c2, w), RuleWiFi(c2, w),
                                      Rule433(c2, w), Rule868(c2, w) >>[r] }
    IN  /\ Cardinality(matching) <= 1
        /\ cls_label # "uncalled" =>
               /\ (cls_label = "FPV video") = RuleFPV(c2, w)
               /\ (cls_label = "telemetry or Wi-Fi") = RuleWiFi(c2, w)
               /\ (cls_label = "control 433 MHz") = Rule433(c2, w)
               /\ (cls_label = "control 868 MHz") = Rule868(c2, w)
               /\ (cls_label = None) = (matching = {})
               /\ BASELINE = NoArray /\ TRACKED = << >> /\ HIST_IDX = 0

\* the call has labelled a range at the upper limit of the FPV width
C24_Witness ==
    /\ cls_label = "FPV video"
    /\ cls_args[2] - cls_args[1] = 25

\* C25: load_config returns a dictionary that holds every key the
\* application reads, whatever config.json is (missing, without some keys,
\* not JSON), so that the start of the application meets no key-access
\* error.
C25_ConfigComplete ==
    window # "none" =>
        /\ window = "built"
        /\ AppKeys \subseteq DOMAIN cfg

\* the range of a run by the session's start, step width and bin width
RangeKey(idx) ==
    << START_MHZ + idx[1] * STEP_MHZ + idx[2] * BIN_WIDTH_MHZ,
       START_MHZ + idx[1] * STEP_MHZ + idx[3] * BIN_WIDTH_MHZ >>

\* C26: the key of a run is a function of its step index, its first bin and
\* its end bin and of the session's start, step width and bin width alone:
\* in every cycle, whatever the levels, a record and the entry made or
\* refreshed from it carry start + step * step_width + bin * bin_width for
\* bin_start and for bin_end.
C26_KeyFromIndices ==
    /\ \A r \in 1..Len(detected) : detected[r].key = RangeKey(RunIdx(detected[r]))
    /\ \A n \in 1..Len(TRACKED) : TRACKED[n].key = RangeKey(TRACKED[n].idx)

\* a run comes again with the same indices at another level than the one
\* its entry holds from an earlier cycle
C26_Witness ==
    /\ InCycle
    /\ pending # << >>
    /\ \E n \in 1..Len(TRACKED) :
          /\ TRACKED[n].idx = RunIdx(Head(pending))
          /\ TRACKED[n].key = Head(pending).key
          /\ TRACKED[n].master # Head(pending).mean_curr

\* C27: the key identifies a tracked range uniquely: two surviving runs of a
\* cycle with different (step, bin_start, bin_end) never carry the same key,
\* so that no two of them are merged into one tracked entry, also when the
\* step width is a whole multiple of the bin width and smaller than bins
\* times the bin width.
C27_KeyUnique ==
    \A r, q \in 1..Len(detected) :
        RunIdx(detected[r]) # RunIdx(detected[q]) => detected[r].key # detected[q].key

\* the sweep of the detection cycle before the one that has just ended
PrevSweep == HISTORY[((HIST_IDX - 2) % HISTORY_LEN) + 1]

\* bin b of row step of sw is at least the threshold above, or below, the
\* baseline
UpIn(sw, step, b) == Q * sw[step + 1][b + 1] - BASELINE[step + 1][b + 1] >= Q * THRESHOLD_DB
DownIn(sw, step, b) == Q * sw[step + 1][b + 1] - BASELINE[step + 1][b + 1] <= 0 - Q * THRESHOLD_DB

\* idx is a maximal run of crossing bins of sw, the only kind of run the
\* detector can yield a record for
RunIn(sw, idx) ==
    \/ /\ \A b \in idx[2]..(idx[3] - 1) : UpIn(sw, idx[1], b)
       /\ idx[2] > 0 => ~UpIn(sw, idx[1], idx[2] - 1)
       /\ idx[3] < Len(sw[idx[1] + 1]) => ~UpIn(sw, idx[1], idx[3])
    \/ /\ \A b \in idx[2]..(idx[3] - 1) : DownIn(sw, idx[1], b)
       /\ idx[2] > 0 => ~DownIn(sw, idx[1], idx[2] - 1)
       /\ idx[3] < Len(sw[idx[1] + 1]) => ~DownIn(sw, idx[1], idx[3])

\* C28: the count of an entry is the length of the latest unbroken run of
\* consecutive detection cycles that yielded its key. Checked in the form:
\* after a cycle that yielded a key, for a run of at least min_bins bins,
\* which the cycle before it did not yield, the entry's count is 1.
C28_CountIsStreak ==
    (CycleDone /\ HIST_IDX >= HISTORY_LEN + 2) =>
        \A r \in 1..Len(detected) :
            LET i == Find(TRACKED, detected[r].key)
            IN  (/\ i # 0
                 /\ detected[r].end - detected[r].start >= MIN_BINS
                 /\ ~RunIn(PrevSweep, RunIdx(detected[r])))
                    => TRACKED[i].count = 1

\* a maximal run of crossing bins of the current sweep, of at least min_bins
\* bins, that the ignore-level or the dispersion filter rejects
RejectedRun(idx) ==
    /\ Flagged(idx)
    /\ idx[3] - idx[2] >= MIN_BINS
    /\ ~PassesFilters(idx[1], idx[2], idx[3])

\* C29: a run creates or refreshes a tracked entry only if its two robust
\* levels are not both below ignore_level and the mean dispersion over its
\* bins is at most stddev_max; a rejected run changes nothing in the
\* tracked map and starts no correlation round.
C29_FiltersGuardTracking ==
    [][ /\ (pc["sweep"] = "idle" /\ pc'["sweep"] # "idle")
              => TRACKED' = TRACKED /\ call'["sweep"] = call["sweep"]
        /\ (call'["sweep"].active /\ ~call["sweep"].active)
              => /\ pending # << >>
                 /\ call'["sweep"].freq = CenterOf(Head(pending).key)
                 /\ PassesFilters(Head(pending).step, Head(pending).start, Head(pending).end)
        /\ (pc["sweep"] \in {"join", "stamp"} /\ pc'["sweep"] # pc["sweep"])
              => /\ PassesFilters(Head(pending).step, Head(pending).start, Head(pending).end)
                 /\ \A n \in 1..Len(TRACKED') :
                        (n > Len(TRACKED) \/ TRACKED'[n] # TRACKED[n])
                            => /\ TRACKED'[n].key = Head(pending).key
                               /\ TRACKED'[n].idx = RunIdx(Head(pending)) ]_vars

\* a cycle has come to its eviction pass with a run rejected by a filter,
\* no record for it, no entry and no round
C29_Witness ==
    /\ pc["sweep"] = "loop"
    /\ pending = << >>
    /\ \E idx \in RunsOf(sweep) : RejectedRun(idx)
    /\ detected = << >>
    /\ TRACKED = << >>
    /\ ~call["sweep"].active

\* the number a sweep of SpecRing carries
TagOf(sw) == (FloorLevel - sw[1][1]) \div 3

\* the slots of the history that hold a sweep
Held == IF HIST_FILLED THEN 1..HISTORY_LEN ELSE 1..HIST_IDX

\* C30: the history never holds more than HISTORY_LEN sweeps; once it is
\* full every detection cycle overwrites the oldest sweep held with the
\* current one, so that at the start of a detection cycle, and until its
\* push, the history holds exactly the HISTORY_LEN latest sweeps processed
\* before the current one since the baseline is ready, and the current
\* sweep is not in it during its own analysis.
C30_HistoryRing ==
    /\ Cardinality(Held) <= HISTORY_LEN
    /\ HIST_FILLED <=> HIST_IDX >= HISTORY_LEN
    /\ { TagOf(HISTORY[j]) : j \in Held } =
           { k \in 1..HIST_IDX : k > HIST_IDX - HISTORY_LEN }
    /\ InCycle => /\ HIST_FILLED
                  /\ TagOf(sweep) = HIST_IDX + 1
                  /\ \A j \in Held : HISTORY[j] # sweep

\* a detection cycle is under way after the ring has been overwritten once
\* all round, with a run to analyse
C30_Witness ==
    /\ InCycle
    /\ HIST_IDX >= 2 * HISTORY_LEN
    /\ detected # << >>

\* segs lists, in increasing order, the maximal runs of the bins of row that
\* satisfy Crossing, and nothing else
RunsExactly(segs, row, Crossing(_)) ==
    /\ \A k \in 1..Len(segs) :
          /\ 0 <= segs[k][1] /\ segs[k][1] < segs[k][2] /\ segs[k][2] <= Len(row)
          /\ \A b \in (segs[k][1] + 1)..segs[k][2] : Crossing(row[b])
          /\ segs[k][1] > 0 => ~Crossing(row[segs[k][1]])
          /\ segs[k][2] < Len(row) => ~Crossing(row[segs[k][2] + 1])
    /\ \A k \in 1..(Len(segs) - 1) : segs[k][2] < segs[k + 1][1]
    /\ \A b \in 1..Len(row) :
          Crossing(row[b]) => \E k \in 1..Len(segs) : segs[k][1] < b /\ b <= segs[k][2]

IsUp(level) == level - FloorLevel >= THRESHOLD_DB
IsDown(level) == level - FloorLevel <= 0 - THRESHOLD_DB

\* C31: _segments(mask) returns exactly the maximal runs of True of the mask
\* as half-open intervals (start, end): in increasing order, pairwise
\* disjoint and non-adjacent, their union being the set of True positions; a
\* run that touches the first or the last bin of the row is included like
\* any other, and an up-run and a down-run that are adjacent are reported
\* independently, one from each mask.
C31_SegmentsAreMaximalRuns ==
    fn_ret # << >> =>
        /\ RunsExactly(fn_ret[1].up, fn_arg, IsUp)
        /\ RunsExactly(fn_ret[1].down, fn_arg, IsDown)

\* an up-run from the first bin met by a down-run to the last bin, each
\* reported from its own mask
C31_Witness ==
    /\ fn_ret # << >>
    /\ Len(fn_arg) = 4
    /\ fn_ret[1].up = << <<0, 2>> >>
    /\ fn_ret[1].down = << <<2, 4>> >>

\* the sums of the windows of 3 consecutive bins of arr
WindowSums(arr) == { arr[i] + arr[i + 1] + arr[i + 2] : i \in 1..(Len(arr) - 2) }

\* 6 * the robust level of the claim: the greatest mean of a window of 3
\* bins, or the mean of a segment shorter than that
Top3Claimed(arr) ==
    IF Len(arr) < 3 THEN (6 * SumSeq(arr)) \div Len(arr) ELSE 2 * MaxOf(WindowSums(arr))

\* C32: for a segment of at least 3 bins _top3_mean returns the maximum,
\* over the windows of 3 consecutive bins of the segment, of the mean of the
\* window (the sliding sum is the true sum of every window); for a shorter
\* segment it returns the mean of the whole segment.
C32_Top3IsMaxWindowMean ==
    fn_ret # << >> => fn_ret[1] = Top3Claimed(fn_arg)

\* The session started from a persisted baseline: it has a baseline and has
\* never accumulated one.
Persisted == BASELINE # NoArray /\ BASELINE_ACCUM = NoArray

\* The step is a call of process_sweep.
Called ==
    /\ pc["sweep"] = "idle"
    /\ sweep' # << >>
    /\ << sweep, BASELINE_COUNT, HIST_IDX, pc >>' # << sweep, BASELINE_COUNT, HIST_IDX, pc >>

\* C33: if a persisted baseline exists at start-up it becomes the baseline
\* and the warm-up is skipped: the first sweep goes to the history fill and
\* detection starts with sweep HISTORY_LEN + 1; if none exists the warm-up
\* runs from scratch and the baseline is saved exactly once, at the
\* BASELINE_SWEEPS-th observation.
C33_PersistedBaselineSkipsWarmUp ==
    /\ [](/\ Persisted =>
               /\ BASELINE = baseline_npy.array
               /\ baseline_npy.saves = 0
               /\ HIST_IDX < HISTORY_LEN =>
                      ~HIST_FILLED /\ TRACKED = << >> /\ pc["sweep"] = "idle"
               /\ HIST_IDX >= HISTORY_LEN => HIST_FILLED
          /\ ~Persisted =>
               /\ baseline_npy.saves = IF BASELINE_COUNT = BASELINE_SWEEPS THEN 1 ELSE 0
               /\ BASELINE_COUNT < BASELINE_SWEEPS => BASELINE = NoArray
               /\ BASELINE_COUNT = BASELINE_SWEEPS =>
                      BASELINE # NoArray /\ baseline_npy.array = BASELINE)
    /\ [][Called =>
            IF Persisted
            THEN /\ << BASELINE, BASELINE_ACCUM, BASELINE_COUNT, baseline_npy >>'
                       = << BASELINE, BASELINE_ACCUM, BASELINE_COUNT, baseline_npy >>
                 /\ IF HIST_IDX < HISTORY_LEN
                    THEN HIST_IDX' = HIST_IDX + 1 /\ HISTORY'[HIST_IDX + 1] = sweep'
                    ELSE pc'["sweep"] = "loop"
            ELSE BASELINE = NoArray =>
                 /\ BASELINE_COUNT' = BASELINE_COUNT + 1
                 /\ HIST_IDX' = 0
                 /\ baseline_npy'.saves = IF BASELINE_COUNT' = BASELINE_SWEEPS THEN 1 ELSE 0]_vars

\* a session that found the baseline its predecessor learnt and saved is in
\* its first detection cycle, sweep HISTORY_LEN + 1
C33_Witness ==
    /\ Persisted
    /\ baseline_npy.array # FlatBaseline(FloorLevel)
    /\ pc["sweep"] = "loop"
    /\ HIST_IDX = HISTORY_LEN

\* C34: for every run of the up mask robust_current - robust_baseline >=
\* THRESHOLD_DB and for every run of the down mask it is <= -THRESHOLD_DB:
\* the sign of a record agrees with the sign of its robust delta, and the
\* rule |robust_current - robust_baseline| < THRESHOLD_DB rejects no run.
C34_SignAgreesWithRobustDelta ==
    fn_ret # << >> =>
        \A k \in 1..Len(fn_ret[1]) :
            LET rec == fn_ret[1][k]
                d == Delta(rec.mean_curr, rec.mean_base)
            IN  /\ rec.sign = "+" => ~Below(d, THRESHOLD_DB)
                /\ rec.sign = "-" => ~Above(d, 0 - THRESHOLD_DB)
                /\ ~rec.rejected

\* C35: a range created or reconfirmed in a detection cycle is still in the
\* tracked map at the end of that cycle: the eviction pass removes no entry
\* whose key the Segment Detector yielded in the cycle.
C35_YieldedSurvivesCycle ==
    CycleDone => \A r \in 1..Len(detected) : Find(TRACKED, detected[r].key) # 0

\* The step is one of the refresher's own, from the snapshot of the map to
\* the end of its pass.
RefresherStep == pc'["updater"] # pc["updater"]

\* C36: the refresher never changes the key set of the tracked map: it
\* neither inserts nor deletes a key, and a write it performs for a range
\* that the sweep path evicted in the meantime does not bring that range
\* back into the map.
C36_RefresherKeepsKeySet ==
    [][RefresherStep =>
          [n \in 1..Len(TRACKED') |-> TRACKED'[n].key]
              = [n \in 1..Len(TRACKED) |-> TRACKED[n].key]]_vars

\* the refresher has written the readings of a round for a range that the
\* sweep path evicted while the round was under way
C36_Witness ==
    /\ pc["updater"] = "stamp"
    /\ ~Head(items).live
    /\ Head(items).key \notin Keys(TRACKED)

\* C37: the refresher starts a correlation round only for a range that is
\* in the tracked map at that moment: it never retunes the auxiliary
\* devices for a range that has already been evicted.
C37_RoundsOnlyForTracked ==
    [][pc["updater"] = "iter" /\ pc'["updater"] = "join"
          => Head(items).key \in Keys(TRACKED)]_vars

\* the entry of key k in the map T
EntryOf(T, k) == T[Find(T, k)]

\* C38: while a key stays tracked its stored baseline level and its
\* classification label never change: every refresh by the sweep path and
\* every write by the refresher leaves them as they were set at creation.
C38_BaselineAndClassKept ==
    [][\A k \in Keys(TRACKED) \cap Keys(TRACKED') :
          /\ EntryOf(TRACKED', k).baseline = EntryOf(TRACKED, k).baseline
          /\ EntryOf(TRACKED', k).class = EntryOf(TRACKED, k).class]_vars

\* the refresher has written the readings of its round into an entry that
\* the sweep path has reconfirmed at least once since it was created
C38_Witness ==
    /\ pc["updater"] = "stamp"
    /\ Head(items).live
    /\ LET e == EntryOf(TRACKED, Head(items).key)
       IN  /\ e.count >= 2
           /\ e.slaves = call["updater"].results
           /\ e.slaves # << >>

\* C39: in a built main window, after any start, stop and set_device, at
\* most one sweep worker thread is alive, the Start action is enabled
\* exactly when the window holds no worker, and the Stop action exactly
\* when it holds one.
C39_OneWorkerAndActionsFollow ==
    window = "built" =>
        /\ Cardinality(threads) <= 1
        /\ start_action <=> worker = << >>
        /\ stop_action <=> worker # << >>

====
